---- MODULE Spec2Model ----
(***************************************************************************)
(* Panic unwinding backed by the native unwind runtime                     *)
(* (rustlib/panic_unwind/src/gcc.rs): the exception envelope (panic,       *)
(* exception_cleanup, cleanup), the frame action resolver (find_eh_action) *)
(* and the personality routine (rust_eh_personality_impl), together with   *)
(* the two-phase walk of the native runtime that drives them.              *)
(***************************************************************************)
EXTENDS Integers, Sequences, FiniteSets, TLC

(***************************************************************************)
(* Bounds of the model.                                                    *)
(***************************************************************************)
\* instruction pointers reported by the native runtime are at most MaxIp
MaxIp == 4
\* envelopes live at addresses 1..MaxPtr
MaxPtr == 2
\* number of frames on the unwound call stack
MaxDepth == 3
\* number of raises one run of the program performs
MaxRaises == 2

(***************************************************************************)
(* Constants of the native unwind ABI used by gcc.rs.                      *)
(***************************************************************************)
_URC_FATAL_PHASE2_ERROR == "_URC_FATAL_PHASE2_ERROR"
_URC_FATAL_PHASE1_ERROR == "_URC_FATAL_PHASE1_ERROR"
_URC_END_OF_STACK == "_URC_END_OF_STACK"
_URC_HANDLER_FOUND == "_URC_HANDLER_FOUND"
_URC_INSTALL_CONTEXT == "_URC_INSTALL_CONTEXT"
_URC_CONTINUE_UNWIND == "_URC_CONTINUE_UNWIND"

\* _Unwind_Action bits
_UA_SEARCH_PHASE == 1
_UA_CLEANUP_PHASE == 2
_UA_HANDLER_FRAME == 4
_UA_FORCE_UNWIND == 8

\* a & b on naturals
RECURSIVE BitAnd(_, _)
BitAnd(a, b) ==
  IF a = 0 \/ b = 0 THEN 0
  ELSE (IF a % 2 = 1 /\ b % 2 = 1 THEN 1 ELSE 0) + 2 * BitAnd(a \div 2, b \div 2)

\* M O Z \0  R U S T: 0x4d4f_5a00_5255_5354 as <<high 32 bits, low 32 bits>>
rust_exception_class == <<1297046016, 1381323604>>

\* G N U C  C + + \0: the class tag of another runtime on the same unwinder
foreign_exception_class == <<1196315971, 1126902528>>

\* (exception pointer register, selector register), x86_64: RAX, RDX
UNWIND_DATA_REG == <<0, 1>>

(***************************************************************************)
(* Machine words.  A usize has 64 bits.  The words the model meets lie     *)
(* within 2^31 of zero modulo 2^64, and a word is kept as the integer      *)
(* nearest to zero that is congruent to it: n >= 0 stands for n and n < 0  *)
(* for 2^64 + n.  Subtraction wraps, as `-` on usize does in a build       *)
(* without overflow checks, and comparison is unsigned.                    *)
(***************************************************************************)
Half == 65536
\* a - b on usize
usize_sub(a, b) == a - b
\* a < b and a <= b on usize
usize_lt(a, b) == IF (a < 0) = (b < 0) THEN a < b ELSE b < 0
usize_le(a, b) == a = b \/ usize_lt(a, b)
\* the 64 bits of a word as four 16-bit limbs, most significant first
usize_bits(n) ==
  IF n >= 0 THEN <<0, 0, n \div Half, n % Half>>
  ELSE <<Half - 1, Half - 1, Half - 1 - ((-n - 1) \div Half),
         Half - 1 - ((-n - 1) % Half)>>

(***************************************************************************)
(* EHAction, the result of resolving a frame.                              *)
(***************************************************************************)
EHAction_None == [tag |-> "None", lpad |-> 0]
EHAction_Cleanup(lpad) == [tag |-> "Cleanup", lpad |-> lpad]
EHAction_Catch(lpad) == [tag |-> "Catch", lpad |-> lpad]
EHAction_Terminate == [tag |-> "Terminate", lpad |-> 0]

Ok(action) == [ok |-> TRUE, action |-> action]
Err == [ok |-> FALSE, action |-> EHAction_None]

(***************************************************************************)
(* Unwind metadata decoder (dwarf::eh::find_eh_action).  A metadata blob   *)
(* declares ncs call-site records; `sites` are the records the blob really *)
(* holds, each [start, len, lpad, action] relative to the function start;  *)
(* nact is the length of the action list and flen the function's length.   *)
(***************************************************************************)
RECURSIVE scan_call_sites_ignores_action(_, _, _, _)
scan_call_sites_ignores_action(lsda, i, pc, lpad_base) ==
  IF i > lsda.ncs THEN Ok(EHAction_None)
  ELSE IF i > Len(lsda.sites) THEN Err
  ELSE LET cs == lsda.sites[i] IN
       IF usize_le(cs.start, pc) /\ usize_lt(pc, cs.start + cs.len)
       THEN IF cs.lpad = 0 THEN Ok(EHAction_None)
            ELSE IF cs.lpad >= lsda.flen THEN Ok(EHAction_Terminate)
            ELSE Ok(EHAction_Cleanup(lpad_base + cs.lpad))
       ELSE scan_call_sites_ignores_action(lsda, i + 1, pc, lpad_base)

RECURSIVE scan_call_sites_closed_range(_, _, _, _)
scan_call_sites_closed_range(lsda, i, pc, lpad_base) ==
  IF i > lsda.ncs THEN Ok(EHAction_None)
  ELSE IF i > Len(lsda.sites) THEN Err
  ELSE LET cs == lsda.sites[i] IN
       IF usize_le(cs.start, pc) /\ usize_le(pc, cs.start + cs.len)
       THEN IF cs.lpad = 0 THEN Ok(EHAction_None)
            ELSE IF cs.lpad >= lsda.flen THEN Ok(EHAction_Terminate)
            ELSE IF cs.action = 0 THEN Ok(EHAction_Cleanup(lpad_base + cs.lpad))
            ELSE IF cs.action > lsda.nact THEN Ok(EHAction_Terminate)
            ELSE Ok(EHAction_Catch(lpad_base + cs.lpad))
       ELSE scan_call_sites_closed_range(lsda, i + 1, pc, lpad_base)

RECURSIVE scan_call_sites(_, _, _, _)
scan_call_sites(lsda, i, pc, lpad_base) ==
  IF i > lsda.ncs THEN Ok(EHAction_None)
  ELSE IF i > Len(lsda.sites) THEN Err
  ELSE LET cs == lsda.sites[i] IN
       IF usize_le(cs.start, pc) /\ usize_lt(pc, cs.start + cs.len)
       THEN IF cs.lpad = 0 THEN Ok(EHAction_None)
            ELSE IF cs.lpad >= lsda.flen THEN Ok(EHAction_Terminate)
            ELSE IF cs.action = 0 THEN Ok(EHAction_Cleanup(lpad_base + cs.lpad))
            ELSE IF cs.action > lsda.nact THEN Ok(EHAction_Terminate)
            ELSE Ok(EHAction_Catch(lpad_base + cs.lpad))
       ELSE scan_call_sites(lsda, i + 1, pc, lpad_base)

\* Layout of a blob: the call-site records it holds, CallSiteSize offsets
\* each, followed by the nact entries of the action list.
CallSiteSize == 4
blob_len(lsda) == CallSiteSize * Len(lsda.sites) + lsda.nact

\* the offsets of the blob the scan reads: every offset is checked against
\* the length of the blob before it is read
RECURSIVE scan_reads(_, _, _)
scan_reads(lsda, i, pc) ==
  IF i > lsda.ncs THEN {}
  ELSE IF i > Len(lsda.sites) THEN {}
  ELSE LET cs == lsda.sites[i]
           record == (CallSiteSize * (i - 1))..(CallSiteSize * i - 1)
       IN IF usize_le(cs.start, pc) /\ usize_lt(pc, cs.start + cs.len)
          THEN IF cs.lpad # 0 /\ cs.lpad < lsda.flen /\ cs.action # 0
                  /\ cs.action <= lsda.nact
               THEN record \cup {CallSiteSize * Len(lsda.sites) + cs.action - 1}
               ELSE record
          ELSE record \cup scan_reads(lsda, i + 1, pc)

eh_find_eh_action(lsda, eh_context) ==
  scan_call_sites(lsda, 1, usize_sub(eh_context.ip, eh_context.func_start),
                  eh_context.func_start)

(***************************************************************************)
(* Frame action resolver.  `calls` lists the native-runtime calls made and  *)
(* eh_context is the EHContext handed to the decoder.                      *)
(***************************************************************************)
find_eh_action_looks_up_return_address(context) ==
  LET eh_context == [ip |-> context.ip, func_start |-> context.region_start]
  IN [result |-> eh_find_eh_action(context.lsda, eh_context),
      eh_context |-> eh_context,
      calls |-> << <<"_Unwind_GetLanguageSpecificData">>,
                   <<"_Unwind_GetIPInfo">>,
                   <<"_Unwind_GetRegionStart">> >>]

find_eh_action(context) ==
  LET lsda == context.lsda
      ip_before_instr == context.ip_before_instr
      ip == context.ip
      eh_context == [ip |-> IF ip_before_instr # 0 THEN ip ELSE usize_sub(ip, 1),
                     func_start |-> context.region_start]
  IN [result |-> eh_find_eh_action(lsda, eh_context),
      eh_context |-> eh_context,
      calls |-> << <<"_Unwind_GetLanguageSpecificData">>,
                   <<"_Unwind_GetIPInfo">>,
                   <<"_Unwind_GetRegionStart">> >>]

(***************************************************************************)
(* Personality routine.  Returns the reason code, the frame context as the *)
(* routine leaves it, and the native-runtime calls it made, in order.      *)
(***************************************************************************)
\* the native-runtime calls among `calls` that write the frame context
Writes(calls) ==
  SelectSeq(calls, LAMBDA c : c[1] \in {"_Unwind_SetGR", "_Unwind_SetIP"})

\* the match of the search phase
personality_search_treats_cleanup_as_handler(eh_action, context, calls) ==
  [rc |-> CASE eh_action.tag = "None" -> _URC_CONTINUE_UNWIND
            [] eh_action.tag \in {"Cleanup", "Catch"} -> _URC_HANDLER_FOUND
            [] eh_action.tag = "Terminate" -> _URC_FATAL_PHASE1_ERROR,
   context |-> context,
   calls |-> calls]

personality_search_sets_ip(eh_action, context, calls) ==
  [rc |-> CASE eh_action.tag \in {"None", "Cleanup"} -> _URC_CONTINUE_UNWIND
            [] eh_action.tag = "Catch" -> _URC_HANDLER_FOUND
            [] eh_action.tag = "Terminate" -> _URC_FATAL_PHASE1_ERROR,
   context |-> IF eh_action.tag = "Catch"
               THEN [context EXCEPT !.ip = eh_action.lpad] ELSE context,
   calls |-> IF eh_action.tag = "Catch"
             THEN calls \o << <<"_Unwind_SetIP", eh_action.lpad>> >> ELSE calls]

personality_search_terminate_continues(eh_action, context, calls) ==
  [rc |-> CASE eh_action.tag \in {"None", "Cleanup", "Terminate"} -> _URC_CONTINUE_UNWIND
            [] eh_action.tag = "Catch" -> _URC_HANDLER_FOUND,
   context |-> context,
   calls |-> calls]

personality_search(eh_action, context, calls) ==
  [rc |-> CASE eh_action.tag \in {"None", "Cleanup"} -> _URC_CONTINUE_UNWIND
            [] eh_action.tag = "Catch" -> _URC_HANDLER_FOUND
            [] eh_action.tag = "Terminate" -> _URC_FATAL_PHASE1_ERROR,
   context |-> context,
   calls |-> calls]

\* the landing-pad arm of the cleanup phase
install_lpad_swapped_registers(lpad, exception_object, context, calls) ==
  [rc |-> _URC_INSTALL_CONTEXT,
   context |-> [context EXCEPT
                  !.gr = [[context.gr EXCEPT ![UNWIND_DATA_REG[2]] = exception_object]
                            EXCEPT ![UNWIND_DATA_REG[1]] = 0],
                  !.ip = lpad],
   calls |-> calls \o
             << <<"_Unwind_SetGR", UNWIND_DATA_REG[2], exception_object>>,
                <<"_Unwind_SetGR", UNWIND_DATA_REG[1], 0>>,
                <<"_Unwind_SetIP", lpad>> >>]

install_lpad(lpad, exception_object, context, calls) ==
  [rc |-> _URC_INSTALL_CONTEXT,
   context |-> [context EXCEPT
                  !.gr = [[context.gr EXCEPT ![UNWIND_DATA_REG[1]] = exception_object]
                            EXCEPT ![UNWIND_DATA_REG[2]] = 0],
                  !.ip = lpad],
   calls |-> calls \o
             << <<"_Unwind_SetGR", UNWIND_DATA_REG[1], exception_object>>,
                <<"_Unwind_SetGR", UNWIND_DATA_REG[2], 0>>,
                <<"_Unwind_SetIP", lpad>> >>]

\* the match of the cleanup phase
personality_cleanup_installs_none(eh_action, exception_object, context, calls) ==
  CASE eh_action.tag \in {"None", "Cleanup", "Catch"} ->
         install_lpad(eh_action.lpad, exception_object, context, calls)
    [] eh_action.tag = "Terminate" ->
         [rc |-> _URC_FATAL_PHASE2_ERROR, context |-> context, calls |-> calls]

personality_cleanup_phase1_code(eh_action, exception_object, context, calls) ==
  CASE eh_action.tag = "None" ->
         [rc |-> _URC_CONTINUE_UNWIND, context |-> context, calls |-> calls]
    [] eh_action.tag \in {"Cleanup", "Catch"} ->
         install_lpad(eh_action.lpad, exception_object, context, calls)
    [] eh_action.tag = "Terminate" ->
         [rc |-> _URC_FATAL_PHASE1_ERROR, context |-> context, calls |-> calls]

personality_cleanup_skips_cleanup_pads(eh_action, exception_object, context, calls) ==
  CASE eh_action.tag \in {"None", "Cleanup"} ->
         [rc |-> _URC_CONTINUE_UNWIND, context |-> context, calls |-> calls]
    [] eh_action.tag = "Catch" ->
         install_lpad(eh_action.lpad, exception_object, context, calls)
    [] eh_action.tag = "Terminate" ->
         [rc |-> _URC_FATAL_PHASE2_ERROR, context |-> context, calls |-> calls]

personality_cleanup(eh_action, exception_object, context, calls) ==
  CASE eh_action.tag = "None" ->
         [rc |-> _URC_CONTINUE_UNWIND, context |-> context, calls |-> calls]
    [] eh_action.tag \in {"Cleanup", "Catch"} ->
         install_lpad(eh_action.lpad, exception_object, context, calls)
    [] eh_action.tag = "Terminate" ->
         [rc |-> _URC_FATAL_PHASE2_ERROR, context |-> context, calls |-> calls]

rust_eh_personality_impl_version_checked_late(version, actions, exception_class, exception_object, context) ==
  LET found == find_eh_action(context) IN
  IF version # 1 \/ ~found.result.ok
  THEN [rc |-> _URC_FATAL_PHASE1_ERROR, context |-> context, calls |-> found.calls]
  ELSE IF BitAnd(actions, _UA_SEARCH_PHASE) # 0
  THEN personality_search(found.result.action, context, found.calls)
  ELSE personality_cleanup(found.result.action, exception_object, context, found.calls)

rust_eh_personality_impl_tests_cleanup_bit(version, actions, exception_class, exception_object, context) ==
  IF version # 1
  THEN [rc |-> _URC_FATAL_PHASE1_ERROR, context |-> context, calls |-> << >>]
  ELSE
    LET found == find_eh_action(context) IN
    IF ~found.result.ok
    THEN [rc |-> _URC_FATAL_PHASE1_ERROR, context |-> context, calls |-> found.calls]
    ELSE IF BitAnd(actions, _UA_CLEANUP_PHASE) = 0
    THEN personality_search(found.result.action, context, found.calls)
    ELSE personality_cleanup(found.result.action, exception_object, context, found.calls)

rust_eh_personality_impl_ignores_phase(version, actions, exception_class, exception_object, context) ==
  IF version # 1
  THEN [rc |-> _URC_FATAL_PHASE1_ERROR, context |-> context, calls |-> << >>]
  ELSE
    LET found == find_eh_action(context) IN
    IF ~found.result.ok
    THEN [rc |-> _URC_FATAL_PHASE1_ERROR, context |-> context, calls |-> found.calls]
    ELSE personality_cleanup(found.result.action, exception_object, context, found.calls)

rust_eh_personality_impl_skips_foreign(version, actions, exception_class, exception_object, context) ==
  IF version # 1
  THEN [rc |-> _URC_FATAL_PHASE1_ERROR, context |-> context, calls |-> << >>]
  ELSE IF exception_class # rust_exception_class
  THEN [rc |-> _URC_CONTINUE_UNWIND, context |-> context, calls |-> << >>]
  ELSE
    LET found == find_eh_action(context) IN
    IF ~found.result.ok
    THEN [rc |-> _URC_FATAL_PHASE1_ERROR, context |-> context, calls |-> found.calls]
    ELSE IF BitAnd(actions, _UA_SEARCH_PHASE) # 0
    THEN personality_search(found.result.action, context, found.calls)
    ELSE personality_cleanup(found.result.action, exception_object, context, found.calls)

rust_eh_personality_impl_search_bit_alone(version, actions, exception_class, exception_object, context) ==
  IF version # 1
  THEN [rc |-> _URC_FATAL_PHASE1_ERROR, context |-> context, calls |-> << >>]
  ELSE
    LET found == find_eh_action(context) IN
    IF ~found.result.ok
    THEN [rc |-> _URC_FATAL_PHASE1_ERROR, context |-> context, calls |-> found.calls]
    ELSE IF actions = _UA_SEARCH_PHASE
    THEN personality_search(found.result.action, context, found.calls)
    ELSE personality_cleanup(found.result.action, exception_object, context, found.calls)

rust_eh_personality_impl(version, actions, exception_class, exception_object, context) ==
  IF version # 1
  THEN [rc |-> _URC_FATAL_PHASE1_ERROR, context |-> context, calls |-> << >>]
  ELSE
    LET found == find_eh_action(context) IN
    IF ~found.result.ok
    THEN [rc |-> _URC_FATAL_PHASE1_ERROR, context |-> context, calls |-> found.calls]
    ELSE IF BitAnd(actions, _UA_SEARCH_PHASE) # 0
    THEN personality_search(found.result.action, context, found.calls)
    ELSE personality_cleanup(found.result.action, exception_object, context, found.calls)

(***************************************************************************)
(* Exception envelope.  The heap maps an address to the envelope stored    *)
(* there, or to FreeCell.                                                  *)
(***************************************************************************)
Ptrs == 1..MaxPtr
FreeCell == [exception_class |-> << >>, exception_cleanup |-> "", cause |-> ""]
NoPayload == ""
Payloads == {"P", "Q"}

panic_static_envelope(h, p, data) ==
  [heap |-> [h EXCEPT ![1] = [exception_class |-> rust_exception_class,
                              exception_cleanup |-> "exception_cleanup",
                              cause |-> data]],
   exception_param |-> 1]

\* Box::new(Exception {..}) at address p, Box::into_raw
panic(h, p, data) ==
  [heap |-> [h EXCEPT ![p] = [exception_class |-> rust_exception_class,
                              exception_cleanup |-> "exception_cleanup",
                              cause |-> data]],
   exception_param |-> p]

\* the envelope's cleanup hook: Box::from_raw drops the envelope and its
\* payload, then __rust_drop_panic never returns
exception_cleanup_leaks_envelope(h, unwind_code, exception) ==
  [heap |-> h, freed |-> << >>, fault |-> "__rust_drop_panic", ret |-> NoPayload]

\* as the cleanup hooks of other runtimes do: it only frees the object when
\* the object was caught by a foreign runtime
exception_cleanup_returns_when_caught(h, unwind_code, exception) ==
  [heap |-> [h EXCEPT ![exception] = FreeCell],
   freed |-> <<exception>>,
   fault |-> IF unwind_code = "_URC_FOREIGN_EXCEPTION_CAUGHT" THEN ""
             ELSE "__rust_drop_panic",
   ret |-> NoPayload]

exception_cleanup(h, unwind_code, exception) ==
  [heap |-> [h EXCEPT ![exception] = FreeCell],
   freed |-> <<exception>>,
   fault |-> "__rust_drop_panic",
   ret |-> NoPayload]

\* the native delete primitive runs the cleanup hook stored in the object
_Unwind_DeleteException(h, exception) ==
  IF h[exception].exception_cleanup = "exception_cleanup"
  THEN exception_cleanup(h, "_URC_FOREIGN_EXCEPTION_CAUGHT", exception)
  ELSE [heap |-> [h EXCEPT ![exception] = FreeCell],
        freed |-> <<exception>>,
        fault |-> "",
        ret |-> NoPayload]

\* cleanup(ptr): `reads` are the envelope fields read, `calls` the native
\* calls made, `freed` the addresses reclaimed, `faults` the faults signalled
\* (a fault never returns) and `ret` the payload returned (NoPayload when the
\* function does not return)
cleanup_forgets_envelope(h, ptr) ==
  LET exception == ptr IN
  IF h[exception].exception_class # rust_exception_class
  THEN LET del == _Unwind_DeleteException(h, exception) IN
       [heap |-> del.heap,
        reads |-> {"exception_class"},
        calls |-> << <<"_Unwind_DeleteException", exception>> >>,
        freed |-> del.freed,
        faults |-> IF del.fault # "" THEN <<del.fault>>
                   ELSE <<"__rust_foreign_exception">>,
        ret |-> NoPayload]
  ELSE [heap |-> h,
        reads |-> {"exception_class", "cause"},
        calls |-> << >>,
        freed |-> << >>,
        faults |-> << >>,
        ret |-> h[exception].cause]

cleanup_reclaims_twice(h, ptr) ==
  LET exception == ptr IN
  IF h[exception].exception_class # rust_exception_class
  THEN LET del == _Unwind_DeleteException(h, exception) IN
       [heap |-> del.heap,
        reads |-> {"exception_class"},
        calls |-> << <<"_Unwind_DeleteException", exception>> >>,
        freed |-> del.freed,
        faults |-> IF del.fault # "" THEN <<del.fault>>
                   ELSE <<"__rust_foreign_exception">>,
        ret |-> NoPayload]
  ELSE [heap |-> [h EXCEPT ![exception] = FreeCell],
        reads |-> {"exception_class", "cause"},
        calls |-> << >>,
        freed |-> <<exception, exception>>,
        faults |-> << >>,
        ret |-> h[exception].cause]

cleanup_skips_class_check(h, ptr) ==
  LET exception == ptr IN
  [heap |-> [h EXCEPT ![exception] = FreeCell],
   reads |-> {"cause"},
   calls |-> << >>,
   freed |-> <<exception>>,
   faults |-> << >>,
   ret |-> h[exception].cause]

cleanup(h, ptr) ==
  LET exception == ptr IN
  IF h[exception].exception_class # rust_exception_class
  THEN LET del == _Unwind_DeleteException(h, exception) IN
       [heap |-> del.heap,
        reads |-> {"exception_class"},
        calls |-> << <<"_Unwind_DeleteException", exception>> >>,
        freed |-> del.freed,
        faults |-> IF del.fault # "" THEN <<del.fault>>
                   ELSE <<"__rust_foreign_exception">>,
        ret |-> NoPayload]
  ELSE [heap |-> [h EXCEPT ![exception] = FreeCell],
        reads |-> {"exception_class", "cause"},
        calls |-> << >>,
        freed |-> <<exception>>,
        faults |-> << >>,
        ret |-> h[exception].cause]

(***************************************************************************)
(* State.                                                                  *)
(***************************************************************************)
VARIABLES
  pc,       \* "running", "search", "cleanup", "landing", "caught", "disposed",
            \* "returned", "aborted"
  stack,    \* frame contexts of the call stack, innermost frame first
  heap,     \* address -> envelope or FreeCell
  allocs,   \* address -> number of envelopes allocated there
  frees,    \* address -> number of envelopes reclaimed there
  raised,   \* the exception in flight: [ptr, class, payload], or NoRaise
  cur,      \* index in stack of the frame the native runtime is visiting
  handler,  \* index in stack of the frame phase 1 stopped at, or 0
  pad,      \* kind of the landing pad control is in: "Cleanup", "Catch", ""
  caught,   \* what the last catch landing pad got from cleanup, or NoCatch
  cleaned,  \* what the last cleanup call did, or NoCleanup
  status,   \* the status the native raise primitive returned, or ""
  ret,      \* <<the value panic returned to its caller>>, or << >>
  log,      \* the events of the current unwind
  nraise,   \* number of raises so far
  dcall,    \* arguments of the last personality invocation, or NoCall
  dret,     \* what the last personality invocation returned, or NoRet
  rng,      \* the ChaChaRng under test: [buffer, state, index], or NoRng
  out,      \* the words next_u32 returned since rng was last positioned
  hist,     \* how rng was made and positioned: [ctor, seed, counter, before,
            \* stream]
  paths,    \* the path segments handed to join_paths
  joined,   \* the result of join_paths, or NotCalled
  parsed    \* the segments split_paths yields for the joined string, or
            \* NotCalled

vars == <<pc, stack, heap, allocs, frees, raised, cur, handler, pad, caught,
          cleaned, status, ret, log, nraise, dcall, dret, rng, out, hist,
          paths, joined, parsed>>

unwind_vars == <<pc, stack, heap, allocs, frees, raised, cur, handler, pad,
                 caught, cleaned, status, ret, log, nraise>>

\* the state of the library code outside the unwinder: sgx_rand and the
\* path lists of sgx_tstd
rand_vars == <<rng, out, hist>>
path_vars == <<paths, joined, parsed>>
library_vars == <<rng, out, hist, paths, joined, parsed>>

NoRaise == [ptr |-> 0, class |-> << >>, payload |-> NoPayload, frames |-> << >>]
NoCatch == [ptr |-> 0, payload |-> NoPayload]
NoCleanup == [ptr |-> 0, class |-> << >>, reads |-> {}, calls |-> << >>,
              freed |-> << >>, faults |-> << >>, ret |-> NoPayload]
NoCall == [version |-> 0, actions |-> 0, exception_class |-> << >>,
           exception_object |-> 0, context |-> << >>]
NoRet == [rc |-> "", context |-> << >>, calls |-> << >>]

\* the data registers of a frame before the personality routine runs
JunkGR == [r \in {UNWIND_DATA_REG[1], UNWIND_DATA_REG[2]} |-> 9]

(***************************************************************************)
(* Personality invocations with arbitrary arguments (SpecDispatch).        *)
(***************************************************************************)
CallSites == [start : {0, 1}, len : {1}, lpad : {0, 2, 9}, action : {0, 1, 3}]

DispatchLSDAs ==
  {[ncs |-> n, sites |-> << >>, nact |-> 1, flen |-> 4] : n \in {0, 1}}
  \cup {[ncs |-> n, sites |-> <<cs>>, nact |-> 1, flen |-> 4] :
          n \in {1, 2}, cs \in CallSites}

DispatchContexts ==
  [lsda : DispatchLSDAs, ip : 1..MaxIp, ip_before_instr : {0, 1},
   region_start : {0, 1}, gr : {JunkGR}]

DispatchVersions == {0, 1, 2}

DispatchActions ==
  {0, _UA_SEARCH_PHASE, _UA_CLEANUP_PHASE, _UA_SEARCH_PHASE + _UA_CLEANUP_PHASE,
   _UA_SEARCH_PHASE + _UA_FORCE_UNWIND,
   _UA_CLEANUP_PHASE + _UA_HANDLER_FRAME, _UA_CLEANUP_PHASE + _UA_FORCE_UNWIND}

NoRng == [buffer |-> << >>, state |-> << >>, index |-> 0]
NoHist ==
  [ctor |-> "", seed |-> << >>, counter |-> << >>, before |-> 0,
   stream |-> << >>]

NotCalled == [tag |-> "", val |-> << >>]

\* no generator has been made
InitRand ==
  /\ rng = NoRng
  /\ out = << >>
  /\ hist = NoHist

\* no generator has been made and no path list joined
InitLibrary ==
  /\ InitRand
  /\ paths = << >>
  /\ joined = NotCalled
  /\ parsed = NotCalled

InitUnwind ==
  /\ pc = "running"
  /\ stack = << >>
  /\ heap = [p \in Ptrs |-> FreeCell]
  /\ allocs = [p \in Ptrs |-> 0]
  /\ frees = [p \in Ptrs |-> 0]
  /\ raised = NoRaise
  /\ cur = 0
  /\ handler = 0
  /\ pad = ""
  /\ caught = NoCatch
  /\ cleaned = NoCleanup
  /\ status = ""
  /\ ret = << >>
  /\ log = << >>
  /\ nraise = 0

Init ==
  /\ InitUnwind
  /\ dcall = NoCall
  /\ dret = NoRet
  /\ InitLibrary

\* the arguments the native runtime (or a test) passes to the routine
InitDispatch ==
  /\ InitUnwind
  /\ dcall \in [version : DispatchVersions, actions : DispatchActions,
                exception_class : {rust_exception_class, foreign_exception_class},
                exception_object : Ptrs, context : DispatchContexts]
  /\ dret = NoRet
  /\ InitLibrary

\* the personality routine runs on them
Personality ==
  /\ dret = NoRet
  /\ dret' = rust_eh_personality_impl(dcall.version, dcall.actions,
                                      dcall.exception_class,
                                      dcall.exception_object, dcall.context)
  /\ UNCHANGED <<dcall, unwind_vars>>
  /\ UNCHANGED library_vars

NextDispatch == Personality

SpecDispatch == InitDispatch /\ [][NextDispatch]_vars

(***************************************************************************)
(* The program and the native runtime's two-phase walk (Spec).             *)
(***************************************************************************)
LsdaNone == [ncs |-> 0, sites |-> << >>, nact |-> 0, flen |-> 4]
LsdaCleanup ==
  [ncs |-> 1, sites |-> <<[start |-> 0, len |-> 2, lpad |-> 3, action |-> 0]>>,
   nact |-> 0, flen |-> 4]
LsdaCatch ==
  [ncs |-> 1, sites |-> <<[start |-> 0, len |-> 2, lpad |-> 3, action |-> 1]>>,
   nact |-> 1, flen |-> 4]
LsdaBadLpad ==
  [ncs |-> 1, sites |-> <<[start |-> 0, len |-> 2, lpad |-> 9, action |-> 0]>>,
   nact |-> 0, flen |-> 4]
LsdaTruncated == [ncs |-> 1, sites |-> << >>, nact |-> 0, flen |-> 4]

\* a frame of this runtime suspended in a call: its return address lies one
\* past the call
RustFrame(l) ==
  [lsda |-> l, ip |-> 2, ip_before_instr |-> 0, region_start |-> 0,
   gr |-> JunkGR, lang |-> "rust"]

\* a frame of another runtime, with its own personality routine, that
\* catches every exception and then disposes of it
ForeignCatchFrame ==
  [lsda |-> LsdaNone, ip |-> 2, ip_before_instr |-> 0, region_start |-> 0,
   gr |-> JunkGR, lang |-> "foreign"]

Frames ==
  {RustFrame(l) : l \in {LsdaNone, LsdaCleanup, LsdaCatch, LsdaBadLpad, LsdaTruncated}}
  \cup {ForeignCatchFrame}

Event(phase, frame, what) == <<phase, frame, what>>

\* _Unwind_Reason_Code discriminants
reason_code(rc) ==
  CASE rc = _URC_FATAL_PHASE2_ERROR -> 2
    [] rc = _URC_FATAL_PHASE1_ERROR -> 3
    [] rc = _URC_END_OF_STACK -> 5
    [] rc = _URC_HANDLER_FOUND -> 6
    [] rc = _URC_INSTALL_CONTEXT -> 7
    [] rc = _URC_CONTINUE_UNWIND -> 8

\* `as u32` of a reason code: the discriminants are not negative
as_u32(code) == code

\* return uw::_Unwind_RaiseException(exception_param) as u32
panic_return_drops_status(native_status) == 0

panic_return(native_status) == as_u32(reason_code(native_status))

\* number of unwinds this thread is in the middle of
UnwindsInFlight == IF pc \in {"search", "cleanup", "landing"} THEN 1 ELSE 0

\* the panic entry point refuses to start an unwind while one is in flight
double_fault_never(in_flight) == FALSE

double_fault(in_flight) == in_flight > 0

\* the program calls a function
Call ==
  /\ pc = "running"
  /\ Len(stack) < MaxDepth
  /\ \E f \in Frames : stack' = <<f>> \o stack
  /\ UNCHANGED <<pc, heap, allocs, frees, raised, cur, handler, pad, caught,
                 cleaned, status, ret, log, nraise, dcall, dret>>
  /\ UNCHANGED library_vars

\* _Unwind_RaiseException(exception_param) begins phase 1 at the innermost frame
BeginRaise(exc) ==
  /\ raised' = exc
  /\ pc' = "search"
  /\ cur' = 1
  /\ handler' = 0
  /\ pad' = ""
  /\ status' = ""
  /\ ret' = << >>
  /\ log' = <<Event("raise", exc.ptr, "_Unwind_RaiseException")>>
  /\ nraise' = nraise + 1
  /\ UNCHANGED <<stack, frees, caught, cleaned, dcall, dret>>

\* panic(data)
Panic ==
  /\ pc = "running"
  /\ nraise < MaxRaises
  /\ \E p \in Ptrs, data \in Payloads :
       /\ heap[p] = FreeCell
       /\ LET r == panic(heap, p, data) IN
            /\ heap' = r.heap
            /\ allocs' = [allocs EXCEPT ![p] = @ + 1]
            /\ BeginRaise([ptr |-> r.exception_param,
                           class |-> r.heap[p].exception_class,
                           payload |-> data,
                           frames |-> stack])
  /\ UNCHANGED library_vars

\* another runtime on the same unwinder throws through this program's frames
ForeignRaise ==
  /\ pc = "running"
  /\ nraise < MaxRaises
  /\ \E p \in Ptrs :
       /\ heap[p] = FreeCell
       /\ heap' = [heap EXCEPT ![p] = [exception_class |-> foreign_exception_class,
                                       exception_cleanup |-> "foreign_cleanup",
                                       cause |-> "foreign bytes"]]
       /\ allocs' = [allocs EXCEPT ![p] = @ + 1]
       /\ BeginRaise([ptr |-> p, class |-> foreign_exception_class,
                      payload |-> NoPayload, frames |-> stack])
  /\ UNCHANGED library_vars

\* phase 1 runs out of frames: the raise primitive returns to panic, which
\* returns the status to its caller
SearchEndOfStack ==
  /\ pc = "search"
  /\ cur > Len(stack)
  /\ status' = _URC_END_OF_STACK
  /\ ret' = <<panic_return(_URC_END_OF_STACK)>>
  /\ pc' = "returned"
  /\ UNCHANGED <<stack, heap, allocs, frees, raised, cur, handler, pad, caught,
                 cleaned, log, nraise, dcall, dret>>
  /\ UNCHANGED library_vars

\* phase 1 asks the personality routine about the frame at cur
SearchFrame ==
  /\ pc = "search"
  /\ cur <= Len(stack)
  /\ stack[cur].lang = "rust"
  /\ LET args == [version |-> 1, actions |-> _UA_SEARCH_PHASE,
                  exception_class |-> raised.class,
                  exception_object |-> raised.ptr, context |-> stack[cur]]
         r == rust_eh_personality_impl(args.version, args.actions,
                                       args.exception_class,
                                       args.exception_object, args.context)
     IN /\ dcall' = args
        /\ dret' = r
        /\ log' = Append(log, Event("search", cur, r.rc))
        /\ stack' = [stack EXCEPT ![cur] = r.context]
        /\ CASE r.rc = _URC_CONTINUE_UNWIND ->
                  /\ cur' = cur + 1
                  /\ UNCHANGED <<pc, handler, status, ret>>
             [] r.rc = _URC_HANDLER_FOUND ->
                  /\ handler' = cur
                  /\ cur' = 1
                  /\ pc' = "cleanup"
                  /\ UNCHANGED <<status, ret>>
             [] OTHER ->
                  /\ status' = _URC_FATAL_PHASE1_ERROR
                  /\ ret' = <<panic_return(_URC_FATAL_PHASE1_ERROR)>>
                  /\ pc' = "returned"
                  /\ UNCHANGED <<cur, handler>>
  /\ UNCHANGED <<heap, allocs, frees, raised, pad, caught, cleaned, nraise>>
  /\ UNCHANGED library_vars

\* phase 1 at a frame of the other runtime: its personality routine claims
\* the exception
ForeignSearchFrame ==
  /\ pc = "search"
  /\ cur <= Len(stack)
  /\ stack[cur].lang = "foreign"
  /\ log' = Append(log, Event("foreign-search", cur, _URC_HANDLER_FOUND))
  /\ handler' = cur
  /\ cur' = 1
  /\ pc' = "cleanup"
  /\ UNCHANGED <<stack, heap, allocs, frees, raised, pad, caught, cleaned,
                 status, ret, nraise, dcall, dret>>
  /\ UNCHANGED library_vars

\* phase 2 asks the personality routine about the frame at cur
CleanupFrame ==
  /\ pc = "cleanup"
  /\ cur <= Len(stack)
  /\ stack[cur].lang = "rust"
  /\ LET args == [version |-> 1,
                  actions |-> IF cur = handler
                              THEN _UA_CLEANUP_PHASE + _UA_HANDLER_FRAME
                              ELSE _UA_CLEANUP_PHASE,
                  exception_class |-> raised.class,
                  exception_object |-> raised.ptr, context |-> stack[cur]]
         r == rust_eh_personality_impl(args.version, args.actions,
                                       args.exception_class,
                                       args.exception_object, args.context)
     IN /\ dcall' = args
        /\ dret' = r
        /\ log' = Append(log, Event("cleanup", cur, r.rc))
        /\ stack' = [stack EXCEPT ![cur] = r.context]
        /\ CASE r.rc = _URC_CONTINUE_UNWIND /\ cur # handler ->
                  /\ cur' = cur + 1
                  /\ UNCHANGED <<pc, pad, status, ret>>
             [] r.rc = _URC_INSTALL_CONTEXT ->
                  /\ pc' = "landing"
                  /\ pad' = find_eh_action(stack[cur]).result.action.tag
                  /\ UNCHANGED <<cur, status, ret>>
             [] OTHER ->
                  /\ status' = _URC_FATAL_PHASE2_ERROR
                  /\ ret' = <<panic_return(_URC_FATAL_PHASE2_ERROR)>>
                  /\ pc' = "returned"
                  /\ UNCHANGED <<cur, pad>>
  /\ UNCHANGED <<heap, allocs, frees, raised, handler, caught, cleaned, nraise>>
  /\ UNCHANGED library_vars

\* phase 2 at the frame of the other runtime that claimed the exception: its
\* personality routine transfers control to its catch code
ForeignCleanupFrame ==
  /\ pc = "cleanup"
  /\ cur <= Len(stack)
  /\ stack[cur].lang = "foreign"
  /\ log' = Append(log, Event("foreign-cleanup", cur, _URC_INSTALL_CONTEXT))
  /\ stack' = [stack EXCEPT ![cur].gr[UNWIND_DATA_REG[1]] = raised.ptr]
  /\ pc' = "landing"
  /\ pad' = "ForeignCatch"
  /\ UNCHANGED <<heap, allocs, frees, raised, cur, handler, caught, cleaned,
                 status, ret, nraise, dcall, dret>>
  /\ UNCHANGED library_vars

\* a cleanup landing pad runs the frame's destructors and resumes unwinding
LandCleanup ==
  /\ pc = "landing"
  /\ pad = "Cleanup"
  /\ log' = Append(log, Event("pad", cur, "Cleanup"))
  /\ pc' = "cleanup"
  /\ cur' = cur + 1
  /\ pad' = ""
  /\ UNCHANGED <<stack, heap, allocs, frees, raised, handler, caught, cleaned,
                 status, ret, nraise, dcall, dret>>
  /\ UNCHANGED library_vars

\* the destructors run by a cleanup landing pad panic
RaiseInCleanup ==
  /\ pc = "landing"
  /\ pad = "Cleanup"
  /\ IF double_fault(UnwindsInFlight)
     THEN /\ pc' = "aborted"
          /\ log' = Append(log, Event("double-fault", cur, "abort"))
          /\ UNCHANGED <<heap, allocs, raised, cur, handler, pad, nraise>>
     ELSE \E p \in Ptrs, data \in Payloads :
            /\ heap[p] = FreeCell
            /\ LET r == panic(heap, p, data) IN
                 /\ heap' = r.heap
                 /\ allocs' = [allocs EXCEPT ![p] = @ + 1]
                 /\ raised' = [ptr |-> r.exception_param,
                               class |-> r.heap[p].exception_class,
                               payload |-> data,
                               frames |-> stack]
            /\ pc' = "search"
            /\ handler' = 0
            /\ pad' = ""
            /\ log' = Append(log, Event("double-fault", cur, "raise"))
            /\ nraise' = nraise + 1
            /\ UNCHANGED cur
  /\ UNCHANGED <<stack, frees, caught, cleaned, status, ret, dcall, dret>>
  /\ UNCHANGED library_vars

\* the events of reclaiming the addresses in `freed`, done by `by`
ReclaimEvents(freed, by) == [i \in DOMAIN freed |-> Event("reclaim", freed[i], by)]

\* an access to the envelope at ptr after it was reclaimed
StaleAccess(ptr, by) ==
  IF heap[ptr] = FreeCell THEN <<Event("use-after-free", ptr, by)>> ELSE << >>

Reclaimed(freed) ==
  [p \in Ptrs |-> frees[p] + Cardinality({i \in DOMAIN freed : freed[i] = p})]

\* a catch landing pad passes the exception-pointer register to cleanup
LandCatch ==
  /\ pc = "landing"
  /\ pad = "Catch"
  /\ LET ptr == stack[cur].gr[UNWIND_DATA_REG[1]]
         c == cleanup(heap, ptr)
         by == IF c.calls = << >> THEN "cleanup" ELSE heap[ptr].exception_cleanup
     IN /\ heap' = c.heap
        /\ frees' = Reclaimed(c.freed)
        /\ cleaned' = [ptr |-> ptr, class |-> heap[ptr].exception_class,
                       reads |-> c.reads, calls |-> c.calls, freed |-> c.freed,
                       faults |-> c.faults, ret |-> c.ret]
        /\ log' = Append(log, Event("pad", cur, "Catch"))
                    \o StaleAccess(ptr, "cleanup") \o ReclaimEvents(c.freed, by)
        /\ IF c.faults = << >>
           THEN /\ caught' = [ptr |-> ptr, payload |-> c.ret]
                /\ pc' = "caught"
           ELSE /\ caught' = NoCatch
                /\ pc' = "aborted"
  /\ pad' = ""
  /\ UNCHANGED <<stack, allocs, raised, cur, handler, status, ret, nraise, dcall, dret>>
  /\ UNCHANGED library_vars

\* the catch code of the other runtime disposes of the exception with the
\* native delete primitive, which runs the envelope's cleanup hook
LandForeignCatch ==
  /\ pc = "landing"
  /\ pad = "ForeignCatch"
  /\ LET ptr == stack[cur].gr[UNWIND_DATA_REG[1]]
         d == _Unwind_DeleteException(heap, ptr)
     IN /\ heap' = d.heap
        /\ frees' = Reclaimed(d.freed)
        /\ log' = Append(log, Event("pad", cur, "ForeignCatch"))
                    \o StaleAccess(ptr, "_Unwind_DeleteException")
                    \o ReclaimEvents(d.freed, heap[ptr].exception_cleanup)
        /\ pc' = IF d.fault = "" THEN "disposed" ELSE "aborted"
  /\ pad' = ""
  /\ UNCHANGED <<stack, allocs, raised, cur, handler, caught, cleaned, status,
                 ret, nraise, dcall, dret>>
  /\ UNCHANGED library_vars

\* the catching frame returns to its caller and the program goes on
Continue ==
  /\ pc \in {"caught", "disposed"}
  /\ pc' = "running"
  /\ stack' = SubSeq(stack, cur + 1, Len(stack))
  /\ raised' = NoRaise
  /\ cur' = 0
  /\ handler' = 0
  /\ caught' = NoCatch
  /\ cleaned' = NoCleanup
  /\ log' = << >>
  /\ dcall' = NoCall
  /\ dret' = NoRet
  /\ UNCHANGED <<heap, allocs, frees, pad, status, ret, nraise>>
  /\ UNCHANGED library_vars

\* the caller of panic aborts the process when panic returns
Abort ==
  /\ pc = "returned"
  /\ pc' = "aborted"
  /\ UNCHANGED <<stack, heap, allocs, frees, raised, cur, handler, pad, caught,
                 cleaned, status, ret, log, nraise, dcall, dret>>
  /\ UNCHANGED library_vars

Next ==
  \/ Call
  \/ Panic
  \/ ForeignRaise
  \/ SearchEndOfStack
  \/ SearchFrame
  \/ ForeignSearchFrame
  \/ CleanupFrame
  \/ ForeignCleanupFrame
  \/ LandCleanup
  \/ RaiseInCleanup
  \/ LandCatch
  \/ LandForeignCatch
  \/ Continue
  \/ Abort

Spec == Init /\ [][Next]_vars

(***************************************************************************)
(* Properties of one personality invocation (SpecDispatch).                *)
(***************************************************************************)
Returned == dret # NoRet
Resolved == find_eh_action(dcall.context).result
InSearchPhase == BitAnd(dcall.actions, _UA_SEARCH_PHASE) # 0
ContextWritten ==
  \/ Writes(dret.calls) # << >>
  \/ dret.context.gr # dcall.context.gr
  \/ dret.context.ip # dcall.context.ip

\* C1: in the search phase with version 1, a frame that resolves to None or
\* Cleanup(addr) gets continue-unwinding and one that resolves to Catch(addr)
\* gets handler-found.
C1_SearchOutcome ==
  (Returned /\ dcall.version = 1 /\ InSearchPhase /\ Resolved.ok) =>
    /\ Resolved.action.tag \in {"None", "Cleanup"} => dret.rc = _URC_CONTINUE_UNWIND
    /\ Resolved.action.tag = "Catch" => dret.rc = _URC_HANDLER_FOUND

C1_Witness ==
  /\ Returned /\ dcall.version = 1 /\ InSearchPhase /\ Resolved.ok
  /\ Resolved.action.tag = "Cleanup"
  /\ dret.rc = _URC_CONTINUE_UNWIND

\* C2: in the cleanup phase with version 1, a frame that resolves to
\* Cleanup(addr) or Catch(addr) gets the exception object's pointer in the
\* exception-pointer register, 0 in the selector register, addr as its
\* instruction pointer, and install-context is returned.
C2_CleanupInstalls ==
  (/\ Returned /\ dcall.version = 1 /\ ~InSearchPhase /\ Resolved.ok
   /\ Resolved.action.tag \in {"Cleanup", "Catch"}) =>
    /\ dret.rc = _URC_INSTALL_CONTEXT
    /\ dret.context.gr[UNWIND_DATA_REG[1]] = dcall.exception_object
    /\ dret.context.gr[UNWIND_DATA_REG[2]] = 0
    /\ dret.context.ip = Resolved.action.lpad
    /\ Writes(dret.calls) =
         << <<"_Unwind_SetGR", UNWIND_DATA_REG[1], dcall.exception_object>>,
            <<"_Unwind_SetGR", UNWIND_DATA_REG[2], 0>>,
            <<"_Unwind_SetIP", Resolved.action.lpad>> >>

C2_Witness ==
  /\ Returned /\ dcall.version = 1 /\ ~InSearchPhase /\ Resolved.ok
  /\ Resolved.action.tag = "Catch"
  /\ dret.rc = _URC_INSTALL_CONTEXT
  /\ dret.context.ip # dcall.context.ip
  /\ dret.context.gr[UNWIND_DATA_REG[1]] = dcall.exception_object

\* C3: an invocation in the search phase makes no set_register and no
\* set_instruction_pointer call and returns with the data registers and the
\* instruction pointer of the frame context unchanged, whatever the version
\* and whatever the frame resolves to.
C3_SearchWritesNothing ==
  (Returned /\ InSearchPhase) => ~ContextWritten

C3_Witness ==
  /\ Returned /\ InSearchPhase /\ dcall.version = 1 /\ Resolved.ok
  /\ Resolved.action.tag = "Catch"
  /\ dret.rc = _URC_HANDLER_FOUND
  /\ ~ContextWritten

\* C4: a frame that resolves to None gets continue-unwinding in the search
\* phase and in the cleanup phase, and its data registers and instruction
\* pointer are not written in either.
C4_NoneContinues ==
  (/\ Returned /\ dcall.version = 1 /\ Resolved.ok
   /\ Resolved.action.tag = "None") =>
    /\ dret.rc = _URC_CONTINUE_UNWIND
    /\ ~ContextWritten

C4_Witness ==
  /\ Returned /\ dcall.version = 1 /\ Resolved.ok
  /\ Resolved.action.tag = "None"
  /\ ~InSearchPhase
  /\ dret.rc = _URC_CONTINUE_UNWIND

\* C5: a frame that resolves to Terminate gets fatal-phase-1-error in the
\* search phase and fatal-phase-2-error in the cleanup phase, and nothing of
\* its context is written.
C5_TerminateIsFatal ==
  (/\ Returned /\ dcall.version = 1 /\ Resolved.ok
   /\ Resolved.action.tag = "Terminate") =>
    /\ InSearchPhase => dret.rc = _URC_FATAL_PHASE1_ERROR
    /\ ~InSearchPhase => dret.rc = _URC_FATAL_PHASE2_ERROR
    /\ ~ContextWritten

C5_Witness ==
  /\ Returned /\ dcall.version = 1 /\ Resolved.ok
  /\ Resolved.action.tag = "Terminate"
  /\ ~InSearchPhase
  /\ dret.rc = _URC_FATAL_PHASE2_ERROR

\* C6: with a version other than 1 the routine returns a fatal error at
\* once, in either phase: it makes no call to the native runtime (so it
\* reads no metadata, instruction pointer or region start and writes
\* nothing) and leaves the context as it was.
C6_BadVersionFatal ==
  (Returned /\ dcall.version # 1) =>
    /\ dret.rc \in {_URC_FATAL_PHASE1_ERROR, _URC_FATAL_PHASE2_ERROR}
    /\ dret.calls = << >>
    /\ dret.context = dcall.context

C6_Witness ==
  /\ Returned /\ dcall.version = 2 /\ ~InSearchPhase
  /\ Resolved.ok /\ Resolved.action.tag = "Catch"
  /\ dret.rc = _URC_FATAL_PHASE1_ERROR

\* C7: a frame whose resolution fails gets the outcome of a resolved
\* Terminate in the same phase: fatal-phase-1-error in the search phase,
\* fatal-phase-2-error in the cleanup phase.
C7_DecodeFailureAsTerminate ==
  (Returned /\ dcall.version = 1 /\ ~Resolved.ok) =>
    dret.rc = (IF InSearchPhase THEN _URC_FATAL_PHASE1_ERROR
               ELSE _URC_FATAL_PHASE2_ERROR)

\* C8: handler-found is returned only in the search phase and
\* install-context only in the cleanup phase.
C8_CodesByPhase ==
  Returned =>
    /\ dret.rc = _URC_HANDLER_FOUND => InSearchPhase
    /\ dret.rc = _URC_INSTALL_CONTEXT => ~InSearchPhase

C8_Witness ==
  /\ Returned
  /\ dret.rc = _URC_INSTALL_CONTEXT
  /\ dcall.actions = _UA_CLEANUP_PHASE + _UA_HANDLER_FRAME

(***************************************************************************)
(* Properties of the envelope across an unwind (Spec).                     *)
(***************************************************************************)
\* C9: round trip.  When a payload passed to panic is caught at a catch
\* landing pad, cleanup on the pointer found in the exception-pointer
\* register returns that very payload, and the envelope panic allocated is
\* reclaimed exactly once: by this cleanup call, and no address is ever
\* reclaimed more often than it was allocated.
C9_RoundTrip ==
  /\ \A p \in Ptrs : frees[p] <= allocs[p]
  /\ pc = "caught" =>
       /\ raised.class = rust_exception_class
       /\ caught = [ptr |-> raised.ptr, payload |-> raised.payload]
       /\ cleaned.freed = <<raised.ptr>>
       /\ heap[raised.ptr] = FreeCell
       /\ frees[raised.ptr] = allocs[raised.ptr]

C9_Witness ==
  /\ pc = "caught"
  /\ nraise = 2
  /\ raised.payload = "Q"
  /\ caught.payload = "Q"
  /\ handler = 3
  /\ allocs[raised.ptr] = 2
  /\ frees[raised.ptr] = 2

\* C10: foreign isolation.  Given an exception whose class tag is not this
\* runtime's, cleanup calls the native delete primitive on that pointer
\* exactly once, signals exactly one foreign-exception fault, does not read
\* the payload field and returns no payload to the catch site.
C10_ForeignIsolation ==
  (cleaned # NoCleanup /\ cleaned.class # rust_exception_class) =>
    /\ cleaned.calls = << <<"_Unwind_DeleteException", cleaned.ptr>> >>
    /\ cleaned.faults = <<"__rust_foreign_exception">>
    /\ "cause" \notin cleaned.reads
    /\ cleaned.ret = NoPayload
    /\ caught = NoCatch
    /\ pc = "aborted"

C10_Witness ==
  /\ cleaned # NoCleanup
  /\ cleaned.class = foreign_exception_class
  /\ cleaned.ptr = raised.ptr
  /\ pc = "aborted"
  /\ heap[cleaned.ptr] = FreeCell

(***************************************************************************)
(* Properties of an unwind as a whole (Spec).                              *)
(***************************************************************************)
InFlight == pc \in {"search", "cleanup", "landing"}
EventsOf(kind) == {i \in DOMAIN log : log[i][1] = kind}
ReclaimsOf(p) == {i \in EventsOf("reclaim") : log[i][2] = p}
ReclaimsBy(by) == {i \in EventsOf("reclaim") : log[i][3] = by}

\* C11: single ownership.  An address holds an envelope exactly while it was
\* allocated once more than reclaimed, so no envelope is freed twice; while
\* the unwind is in flight the envelope is intact and neither cleanup nor the
\* cleanup callback has touched it; it is reclaimed by at most one of them
\* (by cleanup when a catch site of this runtime got it), and nothing reads
\* it after it was reclaimed.
C11_SingleOwnership ==
  /\ \A p \in Ptrs :
       /\ frees[p] <= allocs[p]
       /\ heap[p] # FreeCell <=> allocs[p] = frees[p] + 1
  /\ EventsOf("use-after-free") = {}
  /\ raised # NoRaise =>
       /\ Cardinality(ReclaimsOf(raised.ptr)) <= 1
       /\ InFlight =>
            /\ ReclaimsOf(raised.ptr) = {}
            /\ heap[raised.ptr].exception_class = raised.class
            /\ raised.class = rust_exception_class =>
                 heap[raised.ptr].cause = raised.payload
       /\ pc = "caught" => ReclaimsOf(raised.ptr) = ReclaimsBy("cleanup")
       /\ ReclaimsBy("exception_cleanup") # {} =>
            /\ ReclaimsBy("cleanup") = {}
            /\ pc = "aborted"

C11_Witness ==
  /\ raised.class = rust_exception_class
  /\ ReclaimsBy("exception_cleanup") # {}
  /\ ReclaimsOf(raised.ptr) = ReclaimsBy("exception_cleanup")
  /\ heap[raised.ptr] = FreeCell
  /\ nraise = 2

\* the metadata of the frames the exception was raised over, innermost first
RaisedLsdas == [i \in DOMAIN raised.frames |-> raised.frames[i].lsda]
OverRustFrames == \A i \in DOMAIN raised.frames : raised.frames[i].lang = "rust"
IsPrefix(s, t) == Len(s) <= Len(t) /\ s = SubSeq(t, 1, Len(s))

\* F3 (innermost, None) is frame 1, F2 (Cleanup) frame 2, F1 (Catch) frame 3
ThreeFrameScenario ==
  /\ raised # NoRaise
  /\ raised.class = rust_exception_class
  /\ OverRustFrames
  /\ RaisedLsdas = <<LsdaNone, LsdaCleanup, LsdaCatch>>
  /\ EventsOf("double-fault") = {}

ThreeFrameTrace ==
  << Event("raise", raised.ptr, "_Unwind_RaiseException"),
     Event("search", 1, _URC_CONTINUE_UNWIND),
     Event("search", 2, _URC_CONTINUE_UNWIND),
     Event("search", 3, _URC_HANDLER_FOUND),
     Event("cleanup", 1, _URC_CONTINUE_UNWIND),
     Event("cleanup", 2, _URC_INSTALL_CONTEXT),
     Event("pad", 2, "Cleanup"),
     Event("cleanup", 3, _URC_INSTALL_CONTEXT),
     Event("pad", 3, "Catch"),
     Event("reclaim", raised.ptr, "cleanup") >>

\* C12: with three nested frames F1 (outer, Catch), F2 (middle, Cleanup) and
\* F3 (innermost, None, raising P) the unwind is, step by step, search:
\* continue F3, continue F2, handler-found F1; cleanup: continue F3,
\* install-context F2, F2's cleanup pad, install-context F1, F1's catch pad;
\* at the catch the envelope is reclaimed once and P is what F1 observes.
C12_ThreeFrames ==
  ThreeFrameScenario =>
    /\ IsPrefix(log, ThreeFrameTrace)
    /\ pc \in {"search", "cleanup", "landing", "caught"}
    /\ pc = "caught" =>
         /\ log = ThreeFrameTrace
         /\ caught = [ptr |-> raised.ptr, payload |-> raised.payload]
         /\ cur = 3 /\ handler = 3
         /\ heap[raised.ptr] = FreeCell
         /\ Cardinality(ReclaimsOf(raised.ptr)) = 1

C12_Witness ==
  /\ ThreeFrameScenario
  /\ pc = "caught"
  /\ raised.payload = "P"
  /\ caught.payload = "P"
  /\ log = ThreeFrameTrace

\* the action frame i of the raise resolves to ("Foreign" for a frame of the
\* other runtime, "Err" when the metadata cannot be decoded)
ActionOf(i) ==
  IF raised.frames[i].lang # "rust" THEN "Foreign"
  ELSE LET r == find_eh_action(raised.frames[i]).result
       IN IF r.ok THEN r.action.tag ELSE "Err"
CleanupFramesBelow(n) == {i \in DOMAIN raised.frames : i < n /\ ActionOf(i) = "Cleanup"}
PadsRun == {i \in EventsOf("pad") : log[i][3] = "Cleanup"}
RustRaise == raised # NoRaise /\ raised.class = rust_exception_class
\* no catch site of this runtime is under the raise
Uncaught == RustRaise /\ \A i \in DOMAIN raised.frames : ActionOf(i) # "Catch"
UnwindOver == pc \in {"returned", "aborted", "disposed"}

HandlerFoundAt == {i \in DOMAIN log : /\ log[i][1] \in {"search", "foreign-search"}
                                      /\ log[i][3] = _URC_HANDLER_FOUND}
Installs == {i \in DOMAIN log : /\ log[i][1] \in {"search", "cleanup", "foreign-cleanup"}
                                /\ log[i][3] = _URC_INSTALL_CONTEXT}

\* C14: in an unwind no invocation returns install-context and no landing
\* pad is entered before the search phase returned handler-found for a frame
\* of the stack; until then no frame context has been written.
C14_NoPadBeforeHandlerFound ==
  /\ \A i \in Installs \cup EventsOf("pad") : \E j \in HandlerFoundAt : j < i
  /\ pc = "landing" =>
       /\ handler \in DOMAIN raised.frames
       /\ \E j \in HandlerFoundAt : log[j][2] = handler
  /\ (raised # NoRaise /\ HandlerFoundAt = {}) =>
       /\ stack = raised.frames
       /\ pc \in {"search", "returned", "aborted"}
       /\ handler = 0

C14_Witness ==
  /\ pc = "landing"
  /\ pad = "Cleanup"
  /\ Cardinality(HandlerFoundAt) = 1
  /\ Cardinality(Installs) = 1
  /\ \E i \in Installs : log[i][2] < handler

DispatcherEvents == EventsOf("search") \cup EventsOf("cleanup")

\* C15: the frame whose catch landing pad receives control is the innermost
\* frame, walking outward from the raise, that resolves to Catch; it is the
\* frame the search phase returned handler-found for; and the personality
\* routine is invoked for no frame outside it.
C15_NearestHandler ==
  /\ (pc \in {"landing", "caught"} /\ (pad = "Catch" \/ pc = "caught")) =>
       /\ cur = handler
       /\ ActionOf(cur) = "Catch"
       /\ \A i \in 1..(cur - 1) : ActionOf(i) # "Catch"
       /\ \E j \in HandlerFoundAt : log[j][1] = "search" /\ log[j][2] = cur
       /\ Cardinality(HandlerFoundAt) = 1
  /\ \A i \in DispatcherEvents :
       /\ handler # 0 => log[i][2] <= handler
       /\ \A k \in 1..(log[i][2] - 1) : ActionOf(k) \notin {"Catch", "Foreign"}

C15_Witness ==
  /\ pc = "landing"
  /\ pad = "Catch"
  /\ handler = 2
  /\ Len(raised.frames) = 3
  /\ ActionOf(1) = "Cleanup"
  /\ ActionOf(2) = "Catch"
  /\ ActionOf(3) = "Catch"

\* no frame under the raise is a handler, of this runtime or of another
NoHandlerFrame ==
  /\ raised # NoRaise
  /\ \A i \in DOMAIN raised.frames : ActionOf(i) \notin {"Catch", "Foreign"}
OnlyNoneOrCleanup ==
  \A i \in DOMAIN raised.frames : ActionOf(i) \in {"None", "Cleanup"}

\* C16 as stated: when no frame resolves to Catch, what raise returns is the
\* "no frame claims this exception" status
C16_EndOfStackWheneverUncaught ==
  (NoHandlerFrame /\ pc \in {"returned", "aborted"}) =>
    /\ status = _URC_END_OF_STACK
    /\ ret = <<reason_code(_URC_END_OF_STACK)>>

\* C16: when no frame of the stack is a handler, the unwind never leaves the
\* search phase except by raise returning to its caller, after which the
\* process terminates and nothing else happens.  The status returned is
\* "no frame claims this exception" when every frame resolves to None or
\* Cleanup, and fatal-phase-1-error when the search meets a frame that
\* resolves to Terminate or whose metadata cannot be decoded.
C16_UnhandledTerminates ==
  [][NoHandlerFrame =>
       /\ raised' = raised
       /\ pc = "search" => pc' \in {"search", "returned"}
       /\ pc = "returned" => pc' = "aborted"
       /\ pc = "aborted" => pc' = "aborted"
       /\ pc' \in {"returned", "aborted"} =>
            /\ status' = IF OnlyNoneOrCleanup THEN _URC_END_OF_STACK
                         ELSE _URC_FATAL_PHASE1_ERROR
            /\ ret' = <<reason_code(status')>>
            /\ EventsOf("pad") = {}
            /\ caught' = NoCatch]_vars

C16_Witness ==
  /\ NoHandlerFrame
  /\ OnlyNoneOrCleanup
  /\ Len(raised.frames) = 3
  /\ ActionOf(2) = "Cleanup"
  /\ pc = "aborted"
  /\ status = _URC_END_OF_STACK
  /\ Len(log) = 4

\* C17: a raise made by the cleanup code of an unwind that is not yet
\* resolved is not given to the personality routine: it is the last thing
\* that happens, the process is terminated, no envelope is raised for it and
\* the last invocation of the personality routine is still the one that
\* installed the cleanup landing pad of the first exception.
C17_DoubleFaultAborts ==
  \A i \in EventsOf("double-fault") :
    /\ i = Len(log)
    /\ log[i][3] = "abort"
    /\ pc = "aborted"
    /\ EventsOf("raise") = {1}
    /\ log[1][2] = raised.ptr
    /\ log[i - 1] = Event("cleanup", log[i][2], _URC_INSTALL_CONTEXT)
    /\ dcall.exception_object = raised.ptr
    /\ dcall.context = raised.frames[log[i][2]]
    /\ dret.rc = _URC_INSTALL_CONTEXT

C17_Witness ==
  /\ pc = "aborted"
  /\ RustRaise
  /\ EventsOf("double-fault") = {Len(log)}
  /\ handler = 3
  /\ cur = 2
  /\ heap[raised.ptr].cause = raised.payload

\* a step that is a call of panic
PanicStep == nraise' = nraise + 1 /\ raised'.payload # NoPayload
\* a step in which the raise primitive returns to panic
RaiseReturns == pc # "returned" /\ pc' = "returned"

\* C19: a call of panic puts, at an address that held no envelope, an
\* envelope with this runtime's class tag, the fixed cleanup hook and the
\* payload it was given, leaves every other envelope alone, calls the raise
\* primitive once with that address, and when the primitive returns, panic
\* returns the number of the status the primitive reported.
C19_RaiseBuildsEnvelope ==
  [][/\ PanicStep =>
          /\ heap[raised'.ptr] = FreeCell
          /\ heap' = [heap EXCEPT ![raised'.ptr] =
                        [exception_class |-> <<1297046016, 1381323604>>,
                         exception_cleanup |-> "exception_cleanup",
                         cause |-> raised'.payload]]
          /\ allocs' = [allocs EXCEPT ![raised'.ptr] = @ + 1]
          /\ frees' = frees
          /\ log' = <<Event("raise", raised'.ptr, "_Unwind_RaiseException")>>
          /\ pc' = "search"
          /\ ret' = << >>
     /\ RaiseReturns =>
          /\ status' \in {_URC_END_OF_STACK, _URC_FATAL_PHASE1_ERROR,
                          _URC_FATAL_PHASE2_ERROR}
          /\ ret' = <<reason_code(status')>>
          /\ Cardinality({i \in DOMAIN log' : log'[i][1] = "raise"}) = 1
          /\ raised' = raised]_vars

C19_Witness ==
  /\ RustRaise
  /\ nraise = 2
  /\ pc = "returned"
  /\ status = _URC_END_OF_STACK
  /\ ret = <<5>>
  /\ heap[raised.ptr] = [exception_class |-> rust_exception_class,
                         exception_cleanup |-> "exception_cleanup",
                         cause |-> "Q"]
  /\ frees[raised.ptr] = 1

\* the frame of the latest invocation of the personality routine
LastDispatchFrame ==
  log[CHOOSE i \in DispatcherEvents : \A j \in DispatcherEvents : j <= i][2]
\* what the two phases return for a frame that resolves to `tag`
PhaseCodes(tag) ==
  CASE tag = "None" -> <<_URC_CONTINUE_UNWIND, _URC_CONTINUE_UNWIND>>
    [] tag = "Cleanup" -> <<_URC_CONTINUE_UNWIND, _URC_INSTALL_CONTEXT>>
    [] tag = "Catch" -> <<_URC_HANDLER_FOUND, _URC_INSTALL_CONTEXT>>
    [] OTHER -> << >>

\* C20: what an invocation returns and writes is decided by the version, the
\* phase, the exception pointer and what it reads of the frame (metadata,
\* instruction pointer, function start): another class tag or other register
\* contents give the same outcome.  In the cleanup phase a frame is handed
\* over as it was in the search phase and resolves to the same action, so
\* the codes of the two phases for a frame belong to one action.
C20_PureAndRecomputed ==
  /\ dret # NoRet =>
       \A class \in {rust_exception_class, foreign_exception_class},
          g \in {JunkGR, [r \in DOMAIN JunkGR |-> 0]} :
         LET r == rust_eh_personality_impl(dcall.version, dcall.actions, class,
                                           dcall.exception_object,
                                           [dcall.context EXCEPT !.gr = g])
         IN /\ r.rc = dret.rc
            /\ Writes(r.calls) = Writes(dret.calls)
            /\ r.context.ip = dret.context.ip
  /\ (dret # NoRet /\ DispatcherEvents # {}) =>
       /\ dcall.context = raised.frames[LastDispatchFrame]
       /\ find_eh_action(dcall.context).result =
            find_eh_action(raised.frames[LastDispatchFrame]).result
  /\ \A i \in EventsOf("cleanup") :
       \E j \in EventsOf("search") :
         /\ j < i
         /\ log[j][2] = log[i][2]
         /\ <<log[j][3], log[i][3]>> = PhaseCodes(ActionOf(log[i][2]))

C20_Witness ==
  /\ pc = "landing"
  /\ pad = "Catch"
  /\ ~InSearchPhase
  /\ LastDispatchFrame = 2
  /\ ActionOf(2) = "Catch"
  /\ dcall.context = raised.frames[2]
  /\ dret.context.ip # dcall.context.ip
  /\ \E j \in EventsOf("search") : log[j] = Event("search", 2, _URC_HANDLER_FOUND)

(***************************************************************************)
(* Two call stacks unwinding at the same time (SpecThreads).  Every        *)
(* variable of the walk holds one value per thread; the heap is the one    *)
(* allocator of the process.                                               *)
(***************************************************************************)
Threads == {1, 2}
ThreadStacks ==
  { <<RustFrame(LsdaCatch)>>,
    <<RustFrame(LsdaNone), RustFrame(LsdaCatch)>>,
    <<RustFrame(LsdaCleanup), RustFrame(LsdaCatch)>>,
    <<RustFrame(LsdaNone), RustFrame(LsdaCleanup), RustFrame(LsdaCatch)>> }

InitThreads ==
  /\ pc = [t \in Threads |-> "running"]
  /\ stack \in [Threads -> ThreadStacks]
  /\ heap = [p \in Ptrs |-> FreeCell]
  /\ allocs = [p \in Ptrs |-> 0]
  /\ frees = [p \in Ptrs |-> 0]
  /\ raised = [t \in Threads |-> NoRaise]
  /\ cur = [t \in Threads |-> 0]
  /\ handler = [t \in Threads |-> 0]
  /\ pad = [t \in Threads |-> ""]
  /\ caught = [t \in Threads |-> NoCatch]
  /\ cleaned = [t \in Threads |-> NoCleanup]
  /\ status = [t \in Threads |-> ""]
  /\ ret = [t \in Threads |-> << >>]
  /\ log = [t \in Threads |-> << >>]
  /\ nraise = 0
  /\ dcall = [t \in Threads |-> NoCall]
  /\ dret = [t \in Threads |-> NoRet]
  /\ InitLibrary

\* panic(data) on the stack of thread t
ThreadPanic(t) ==
  /\ pc[t] = "running"
  /\ raised[t] = NoRaise
  /\ \E p \in Ptrs, data \in Payloads :
       /\ heap[p] = FreeCell
       /\ LET r == panic(heap, p, data) IN
            /\ heap' = r.heap
            /\ allocs' = [allocs EXCEPT ![r.exception_param] = @ + 1]
            /\ raised' = [raised EXCEPT ![t] =
                            [ptr |-> r.exception_param,
                             class |-> r.heap[r.exception_param].exception_class,
                             payload |-> data,
                             frames |-> stack[t]]]
            /\ log' = [log EXCEPT ![t] =
                         <<Event("raise", r.exception_param, "_Unwind_RaiseException")>>]
  /\ pc' = [pc EXCEPT ![t] = "search"]
  /\ cur' = [cur EXCEPT ![t] = 1]
  /\ nraise' = nraise + 1
  /\ UNCHANGED <<stack, frees, handler, pad, caught, cleaned, status, ret, dcall, dret>>
  /\ UNCHANGED library_vars

\* phase 1 on the stack of thread t asks the personality routine about the
\* frame at cur[t]
ThreadSearchFrame(t) ==
  /\ pc[t] = "search"
  /\ cur[t] <= Len(stack[t])
  /\ LET args == [version |-> 1, actions |-> _UA_SEARCH_PHASE,
                  exception_class |-> raised[t].class,
                  exception_object |-> raised[t].ptr,
                  context |-> stack[t][cur[t]]]
         r == rust_eh_personality_impl(args.version, args.actions,
                                       args.exception_class,
                                       args.exception_object, args.context)
     IN /\ dcall' = [dcall EXCEPT ![t] = args]
        /\ dret' = [dret EXCEPT ![t] = r]
        /\ log' = [log EXCEPT ![t] = Append(@, Event("search", cur[t], r.rc))]
        /\ stack' = [stack EXCEPT ![t][cur[t]] = r.context]
        /\ CASE r.rc = _URC_CONTINUE_UNWIND ->
                  /\ cur' = [cur EXCEPT ![t] = @ + 1]
                  /\ UNCHANGED <<pc, handler, status, ret>>
             [] r.rc = _URC_HANDLER_FOUND ->
                  /\ handler' = [handler EXCEPT ![t] = cur[t]]
                  /\ cur' = [cur EXCEPT ![t] = 1]
                  /\ pc' = [pc EXCEPT ![t] = "cleanup"]
                  /\ UNCHANGED <<status, ret>>
             [] OTHER ->
                  /\ status' = [status EXCEPT ![t] = _URC_FATAL_PHASE1_ERROR]
                  /\ ret' = [ret EXCEPT ![t] = <<panic_return(_URC_FATAL_PHASE1_ERROR)>>]
                  /\ pc' = [pc EXCEPT ![t] = "returned"]
                  /\ UNCHANGED <<cur, handler>>
  /\ UNCHANGED <<heap, allocs, frees, raised, pad, caught, cleaned, nraise>>
  /\ UNCHANGED library_vars

\* phase 2 on the stack of thread t
ThreadCleanupFrame(t) ==
  /\ pc[t] = "cleanup"
  /\ cur[t] <= Len(stack[t])
  /\ LET args == [version |-> 1,
                  actions |-> IF cur[t] = handler[t]
                              THEN _UA_CLEANUP_PHASE + _UA_HANDLER_FRAME
                              ELSE _UA_CLEANUP_PHASE,
                  exception_class |-> raised[t].class,
                  exception_object |-> raised[t].ptr,
                  context |-> stack[t][cur[t]]]
         r == rust_eh_personality_impl(args.version, args.actions,
                                       args.exception_class,
                                       args.exception_object, args.context)
     IN /\ dcall' = [dcall EXCEPT ![t] = args]
        /\ dret' = [dret EXCEPT ![t] = r]
        /\ log' = [log EXCEPT ![t] = Append(@, Event("cleanup", cur[t], r.rc))]
        /\ stack' = [stack EXCEPT ![t][cur[t]] = r.context]
        /\ CASE r.rc = _URC_CONTINUE_UNWIND /\ cur[t] # handler[t] ->
                  /\ cur' = [cur EXCEPT ![t] = @ + 1]
                  /\ UNCHANGED <<pc, pad, status, ret>>
             [] r.rc = _URC_INSTALL_CONTEXT ->
                  /\ pc' = [pc EXCEPT ![t] = "landing"]
                  /\ pad' = [pad EXCEPT ![t] =
                               find_eh_action(stack[t][cur[t]]).result.action.tag]
                  /\ UNCHANGED <<cur, status, ret>>
             [] OTHER ->
                  /\ status' = [status EXCEPT ![t] = _URC_FATAL_PHASE2_ERROR]
                  /\ ret' = [ret EXCEPT ![t] = <<panic_return(_URC_FATAL_PHASE2_ERROR)>>]
                  /\ pc' = [pc EXCEPT ![t] = "returned"]
                  /\ UNCHANGED <<cur, pad>>
  /\ UNCHANGED <<heap, allocs, frees, raised, handler, caught, cleaned, nraise>>
  /\ UNCHANGED library_vars

\* a cleanup landing pad of thread t runs and resumes unwinding
ThreadLandCleanup(t) ==
  /\ pc[t] = "landing"
  /\ pad[t] = "Cleanup"
  /\ log' = [log EXCEPT ![t] = Append(@, Event("pad", cur[t], "Cleanup"))]
  /\ pc' = [pc EXCEPT ![t] = "cleanup"]
  /\ cur' = [cur EXCEPT ![t] = @ + 1]
  /\ pad' = [pad EXCEPT ![t] = ""]
  /\ UNCHANGED <<stack, heap, allocs, frees, raised, handler, caught, cleaned,
                 status, ret, nraise, dcall, dret>>
  /\ UNCHANGED library_vars

\* the catch landing pad of thread t passes its exception-pointer register
\* to cleanup
ThreadLandCatch(t) ==
  /\ pc[t] = "landing"
  /\ pad[t] = "Catch"
  /\ LET ptr == stack[t][cur[t]].gr[UNWIND_DATA_REG[1]]
         c == cleanup(heap, ptr)
         by == IF c.calls = << >> THEN "cleanup" ELSE heap[ptr].exception_cleanup
     IN /\ heap' = c.heap
        /\ frees' = Reclaimed(c.freed)
        /\ cleaned' = [cleaned EXCEPT ![t] =
                         [ptr |-> ptr, class |-> heap[ptr].exception_class,
                          reads |-> c.reads, calls |-> c.calls, freed |-> c.freed,
                          faults |-> c.faults, ret |-> c.ret]]
        /\ log' = [log EXCEPT ![t] =
                     Append(@, Event("pad", cur[t], "Catch"))
                       \o StaleAccess(ptr, "cleanup") \o ReclaimEvents(c.freed, by)]
        /\ IF c.faults = << >>
           THEN /\ caught' = [caught EXCEPT ![t] = [ptr |-> ptr, payload |-> c.ret]]
                /\ pc' = [pc EXCEPT ![t] = "caught"]
           ELSE /\ caught' = [caught EXCEPT ![t] = NoCatch]
                /\ pc' = [pc EXCEPT ![t] = "aborted"]
  /\ pad' = [pad EXCEPT ![t] = ""]
  /\ UNCHANGED <<stack, allocs, raised, cur, handler, status, ret, nraise, dcall, dret>>
  /\ UNCHANGED library_vars

NextThreads ==
  \/ \E t \in Threads : ThreadPanic(t)
  \/ \E t \in Threads : ThreadSearchFrame(t)
  \/ \E t \in Threads : ThreadCleanupFrame(t)
  \/ \E t \in Threads : ThreadLandCleanup(t)
  \/ \E t \in Threads : ThreadLandCatch(t)

SpecThreads == InitThreads /\ [][NextThreads]_vars

\* thread t takes the step
StepOf(t) == log'[t] # log[t]

\* C18: with two stacks unwinding under any interleaving, the envelopes in
\* flight are distinct, each catch site gets the payload raised on its own
\* stack, each envelope is reclaimed exactly once and by its own thread, and
\* a step of one thread changes nothing of the other thread's walk and
\* nothing of the other thread's envelope.
C18_Independence ==
  [][/\ \A t \in Threads :
          /\ pc'[t] = "caught" =>
               /\ caught'[t] = [ptr |-> raised'[t].ptr, payload |-> raised'[t].payload]
               /\ Cardinality({i \in DOMAIN log'[t] :
                                 log'[t][i] = Event("reclaim", raised'[t].ptr, "cleanup")}) = 1
               /\ \A i \in DOMAIN log'[t] : log'[t][i][1] # "use-after-free"
               /\ \A u \in Threads \ {t} : \A i \in DOMAIN log'[u] :
                    log'[u][i][1] = "reclaim" => log'[u][i][2] = raised'[u].ptr
          /\ pc'[t] \notin {"returned", "aborted"}
     /\ \A t \in Threads : \A u \in Threads \ {t} :
          /\ (raised'[t] # NoRaise /\ raised'[u] # NoRaise
              /\ pc'[t] # "caught" /\ pc'[u] # "caught") =>
               raised'[t].ptr # raised'[u].ptr
          /\ StepOf(t) =>
               /\ <<pc[u], stack[u], raised[u], cur[u], handler[u], pad[u],
                    caught[u], log[u], dcall[u], dret[u]>>
                  = <<pc'[u], stack'[u], raised'[u], cur'[u], handler'[u], pad'[u],
                      caught'[u], log'[u], dcall'[u], dret'[u]>>
               /\ (raised[u] # NoRaise /\ pc[u] # "caught") =>
                    /\ heap'[raised[u].ptr] = heap[raised[u].ptr]
                    /\ heap[raised[u].ptr].cause = raised[u].payload]_vars

C18_Witness ==
  /\ \A t \in Threads : pc[t] = "caught"
  /\ caught[1].payload = "P"
  /\ caught[2].payload = "Q"
  /\ raised[1].ptr = 2
  /\ raised[2].ptr = 1
  /\ heap = [p \in Ptrs |-> FreeCell]
  /\ Len(stack[1]) = 3
  /\ Len(stack[2]) = 3

(***************************************************************************)
(* Resolving one frame (SpecResolve): the native runtime hands a frame     *)
(* context to find_eh_action.  The call-site tables are ordered and their  *)
(* ranges do not overlap.                                                  *)
(***************************************************************************)
ResolveSites == [start : {0, 1, 2}, len : {1, 2}, lpad : {0, 2, 3}, action : {0, 1}]
ResolveTables ==
  {<< >>} \cup {<<a>> : a \in ResolveSites}
  \cup {t \in {<<a, b>> : a \in ResolveSites, b \in ResolveSites} :
          t[1].start + t[1].len <= t[2].start}
ResolveLSDAs ==
  {[ncs |-> Len(t), sites |-> t, nact |-> 1, flen |-> 4] : t \in ResolveTables}
ResolveContexts ==
  [lsda : ResolveLSDAs, ip : 0..MaxIp, ip_before_instr : {0, 1},
   region_start : {0, 1}, gr : {JunkGR}]

InitResolve ==
  /\ InitUnwind
  /\ dcall \in [version : {1}, actions : {_UA_SEARCH_PHASE},
                exception_class : {rust_exception_class},
                exception_object : {1}, context : ResolveContexts]
  /\ dret = NoRet
  /\ InitLibrary

\* find_eh_action(context)
Resolve ==
  /\ dret = NoRet
  /\ dret' = find_eh_action(dcall.context)
  /\ UNCHANGED <<dcall, unwind_vars>>
  /\ UNCHANGED library_vars

NextResolve == Resolve

SpecResolve == InitResolve /\ [][NextResolve]_vars

\* the records of a table whose half-open range [start, start + len) holds pc
Covering(lsda, point) ==
  {i \in DOMAIN lsda.sites :
     lsda.sites[i].start <= point /\ point < lsda.sites[i].start + lsda.sites[i].len}
\* the action a well-formed record stands for
RecordAction(cs, lpad_base) ==
  IF cs.lpad = 0 THEN EHAction_None
  ELSE IF cs.action = 0 THEN EHAction_Cleanup(lpad_base + cs.lpad)
  ELSE EHAction_Catch(lpad_base + cs.lpad)
\* the action of the point: that of the record covering it, if any
ActionAt(lsda, point, lpad_base) ==
  IF Covering(lsda, point) = {} THEN EHAction_None
  ELSE RecordAction(lsda.sites[CHOOSE i \in Covering(lsda, point) : TRUE], lpad_base)
\* the instruction pointer of the frame, relative to the function start
IpOffset == dcall.context.ip - dcall.context.region_start

\* C21: when the ip-info flag is 0 (return address) the frame is resolved at
\* ip - 1, and when it is not 0 at ip itself; so a return address equal to
\* the end of a call-site range resolves to that range's record and not to
\* the following one.
C21_IpAdjustment ==
  Returned =>
    LET c == dcall.context IN
    /\ c.ip_before_instr = 0 =>
         dret.result = Ok(ActionAt(c.lsda, IpOffset - 1, c.region_start))
    /\ c.ip_before_instr # 0 =>
         dret.result = Ok(ActionAt(c.lsda, IpOffset, c.region_start))
    /\ \A i \in DOMAIN c.lsda.sites :
         (c.ip_before_instr = 0 /\ IpOffset = c.lsda.sites[i].start + c.lsda.sites[i].len) =>
           dret.result = Ok(RecordAction(c.lsda.sites[i], c.region_start))

C21_Witness ==
  /\ Returned
  /\ dcall.context.ip_before_instr = 0
  /\ Len(dcall.context.lsda.sites) = 2
  /\ IpOffset = dcall.context.lsda.sites[1].start + dcall.context.lsda.sites[1].len
  /\ IpOffset = dcall.context.lsda.sites[2].start
  /\ dret.result = Ok(EHAction_Cleanup(dcall.context.region_start + 2))
  /\ RecordAction(dcall.context.lsda.sites[2], dcall.context.region_start).tag = "Catch"

TargetPc ==
  LET c == dcall.context
  IN usize_sub(IF c.ip_before_instr # 0 THEN c.ip ELSE usize_sub(c.ip, 1),
               c.region_start)

\* C22: the decoder returns None when no call-site record covers the target
\* program counter, None when the covering record has no landing pad,
\* Cleanup(landing pad) when it has a landing pad and no action entry, and
\* Catch(landing pad) when it has a landing pad and an action entry.
C22_Classification ==
  Returned =>
    LET c == dcall.context
        cov == Covering(c.lsda, TargetPc)
    IN /\ cov = {} => dret.result = Ok(EHAction_None)
       /\ \A i \in cov :
            LET cs == c.lsda.sites[i] IN
            /\ cs.lpad = 0 => dret.result = Ok(EHAction_None)
            /\ (cs.lpad # 0 /\ cs.action = 0) =>
                 dret.result = Ok(EHAction_Cleanup(c.region_start + cs.lpad))
            /\ (cs.lpad # 0 /\ cs.action # 0) =>
                 dret.result = Ok(EHAction_Catch(c.region_start + cs.lpad))

C22_Witness ==
  /\ Returned
  /\ Len(dcall.context.lsda.sites) = 2
  /\ Covering(dcall.context.lsda, TargetPc) = {2}
  /\ dcall.context.lsda.sites[2].action = 1
  /\ dcall.context.lsda.sites[1].action = 0
  /\ dcall.context.lsda.sites[1].lpad = 2
  /\ dret.result = Ok(EHAction_Catch(dcall.context.region_start + 3))

\* the action of the point when record i is left out of the table
ActionBesides(lsda, i, point, lpad_base) ==
  LET rest == Covering(lsda, point) \ {i}
  IN IF rest = {} THEN EHAction_None
     ELSE RecordAction(lsda.sites[CHOOSE j \in rest : TRUE], lpad_base)

\* C23: ranges are half-open.  For a record covering [s, e), a program
\* counter with s <= pc < e resolves to that record's action, while pc = e
\* and pc = s - 1 resolve to the action of another record covering them, or
\* to None; at most one record covers a point.
C23_BoundaryLookup ==
  Returned =>
    LET c == dcall.context IN
    /\ Cardinality(Covering(c.lsda, TargetPc)) <= 1
    /\ \A i \in DOMAIN c.lsda.sites :
         LET s == c.lsda.sites[i].start
             e == s + c.lsda.sites[i].len
         IN /\ (s <= TargetPc /\ TargetPc < e) =>
                 dret.result = Ok(RecordAction(c.lsda.sites[i], c.region_start))
            /\ TargetPc \in {e, s - 1} =>
                 /\ i \notin Covering(c.lsda, TargetPc)
                 /\ dret.result = Ok(ActionBesides(c.lsda, i, TargetPc, c.region_start))

C23_Witness ==
  /\ Returned
  /\ Len(dcall.context.lsda.sites) = 2
  /\ TargetPc = dcall.context.lsda.sites[1].start + dcall.context.lsda.sites[1].len
  /\ TargetPc = dcall.context.lsda.sites[2].start - 1
  /\ RecordAction(dcall.context.lsda.sites[1], 0).tag = "Catch"
  /\ RecordAction(dcall.context.lsda.sites[2], 0).tag = "Cleanup"
  /\ dret.result = Ok(EHAction_None)

\* the record covering the target has a landing pad outside the function,
\* or an action entry the action list does not hold
MalformedAtTarget ==
  \E i \in Covering(dcall.context.lsda, TargetPc) :
    LET cs == dcall.context.lsda.sites[i]
        l == dcall.context.lsda
    IN /\ cs.lpad # 0
       /\ \/ cs.lpad >= l.flen
          \/ cs.action > l.nact

CallStacks == UNION {[1..n -> Frames] : n \in 0..MaxDepth}

InitUnwinding ==
  /\ pc = "running"
  /\ stack \in CallStacks
  /\ heap = [p \in Ptrs |-> FreeCell]
  /\ allocs = [p \in Ptrs |-> 0]
  /\ frees = [p \in Ptrs |-> 0]
  /\ raised = NoRaise
  /\ cur = 0
  /\ handler = 0
  /\ pad = ""
  /\ caught = NoCatch
  /\ cleaned = NoCleanup
  /\ status = ""
  /\ ret = << >>
  /\ log = << >>
  /\ nraise = 0
  /\ dcall = NoCall
  /\ dret = NoRet
  /\ InitLibrary

UnwindStep ==
  \/ SearchEndOfStack
  \/ SearchFrame
  \/ ForeignSearchFrame
  \/ CleanupFrame
  \/ ForeignCleanupFrame
  \/ LandCleanup
  \/ RaiseInCleanup
  \/ LandCatch
  \/ LandForeignCatch
  \/ Abort

NextUnwinding ==
  \/ Panic
  \/ ForeignRaise
  \/ SearchEndOfStack
  \/ SearchFrame
  \/ ForeignSearchFrame
  \/ CleanupFrame
  \/ ForeignCleanupFrame
  \/ LandCleanup
  \/ RaiseInCleanup
  \/ LandCatch
  \/ LandForeignCatch
  \/ Abort

SpecFair == InitUnwinding /\ [][NextUnwinding]_vars /\ WF_vars(UnwindStep)

\* a catch landing pad got the exception, or the process was terminated
Ended == pc \in {"caught", "disposed", "aborted"}
\* the invocations of the personality routine for frame k in one phase
InvocationsOf(phase, k) == {i \in EventsOf(phase) : log[i][2] = k}
OncePerFramePerPhase ==
  \A k \in DOMAIN raised.frames :
    /\ Cardinality(InvocationsOf("search", k)) <= 1
    /\ Cardinality(InvocationsOf("cleanup", k)) <= 1
InvocationCompletes ==
  dret # NoRet =>
    dret.rc \in {_URC_CONTINUE_UNWIND, _URC_HANDLER_FOUND, _URC_INSTALL_CONTEXT,
                 _URC_FATAL_PHASE1_ERROR, _URC_FATAL_PHASE2_ERROR}

\* C25: every unwind over a stack of finite depth ends, with a catch landing
\* pad receiving the exception or with the termination of the process; in
\* each phase the personality routine is invoked at most once per frame, on
\* frames of the stack only, and every invocation returns a reason code.
C25_Termination ==
  /\ [](OncePerFramePerPhase /\ InvocationCompletes)
  /\ [](\A i \in DispatcherEvents : log[i][2] \in DOMAIN raised.frames)
  /\ (raised # NoRaise) ~> Ended

C25_Witness ==
  /\ pc = "caught"
  /\ Len(raised.frames) = 3
  /\ \A k \in 1..3 : /\ Cardinality(InvocationsOf("search", k)) = 1
                     /\ Cardinality(InvocationsOf("cleanup", k)) = 1

(***************************************************************************)
(* sgx_rand: the ChaCha20 generator of chacha.rs.                          *)
(* A u32 is kept as <<high 16 bits, low 16 bits>>, since the integers of   *)
(* the model checker are 32-bit signed; a u64 is kept as                   *)
(* <<high u32, low u32>>.                                                  *)
(***************************************************************************)
KEY_WORDS == 8
STATE_WORDS == 16
CHACHA_ROUNDS == 20

U32_ZERO == <<0, 0>>
U32_ONE == <<0, 1>>
U32_MAX == <<Half - 1, Half - 1>>

\* Wrapping<u32> addition
wrapping_add(a, b) ==
  LET lo == a[2] + b[2]
      hi == a[1] + b[1] + (lo \div Half)
  IN <<hi % Half, lo % Half>>

RECURSIVE xor16(_, _)
xor16(a, b) ==
  IF a = 0 THEN b
  ELSE IF b = 0 THEN a
  ELSE ((a + b) % 2) + 2 * xor16(a \div 2, b \div 2)

\* a ^ b on u32
bitxor(a, b) == <<xor16(a[1], b[1]), xor16(a[2], b[2])>>

\* u32::rotate_left(r), 0 < r <= 16
rotate_left(a, r) ==
  IF r = 16 THEN <<a[2], a[1]>>
  ELSE LET p == 2 ^ r
           q == Half \div p
       IN <<((a[1] * p) % Half) + (a[2] \div q),
            ((a[2] * p) % Half) + (a[1] \div q)>>

\* one line of quarter_round!: x[a] += x[b]; x[d] ^= x[a];
\* x[d] = x[d].rotate_left(r) (0-based indexes)
mix(x, a, b, d, r) ==
  [x EXCEPT
     ![a + 1] = wrapping_add(x[a + 1], x[b + 1]),
     ![d + 1] = rotate_left(bitxor(x[d + 1],
                                   wrapping_add(x[a + 1], x[b + 1])), r)]

\* quarter_round!(a, b, c, d) on the words x[a], x[b], x[c], x[d]
quarter_round(x, a, b, c, d) ==
  mix(mix(mix(mix(x, a, b, d, 16), c, d, b, 12), a, b, d, 8), c, d, b, 7)

\* the four column rounds of double_round!
column_rounds(x) ==
  quarter_round(
    quarter_round(
      quarter_round(
        quarter_round(x, 0, 4, 8, 12),
        1, 5, 9, 13),
      2, 6, 10, 14),
    3, 7, 11, 15)

\* the four diagonal rounds of double_round!
diagonal_rounds(x) ==
  quarter_round(
    quarter_round(
      quarter_round(
        quarter_round(x, 0, 5, 10, 15),
        1, 6, 11, 12),
      2, 7, 8, 13),
    3, 4, 9, 14)

\* double_round!(x): column rounds, then diagonal rounds
double_round(x) == diagonal_rounds(column_rounds(x))

\* the loop of core: n double rounds.  The test on y makes each round's
\* result a value before the next round starts.
RECURSIVE rounds(_, _)
rounds(x, n) ==
  IF n = 0 THEN x
  ELSE LET y == double_round(x)
       IN IF Len(y) = STATE_WORDS THEN rounds(y, n - 1) ELSE y

\* core(output, input): the value left in output
core_without_feed_forward(input) ==
  rounds(input, CHACHA_ROUNDS \div 2)

core(input) ==
  LET output == rounds(input, CHACHA_ROUNDS \div 2)
  IN [i \in 1..STATE_WORDS |-> wrapping_add(output[i], input[i])]

EMPTY ==
  [buffer |-> [i \in 1..STATE_WORDS |-> U32_ZERO],
   state |-> [i \in 1..STATE_WORDS |-> U32_ZERO],
   index |-> STATE_WORDS]

\* "expand 32-byte k": 0x61707865, 0x3320646E, 0x79622D32, 0x6B206574
SIGMA ==
  << <<24944, 30821>>, <<13088, 25710>>, <<31074, 11570>>, <<27424, 25972>> >>

ZeroKey == [i \in 1..KEY_WORDS |-> U32_ZERO]

\* self.init(key)
init(self, key) ==
  [self EXCEPT
     !.state = [i \in 1..STATE_WORDS |->
                  IF i <= 4 THEN SIGMA[i]
                  ELSE IF i <= 4 + KEY_WORDS THEN key[i - 4]
                  ELSE U32_ZERO],
     !.index = STATE_WORDS]

new_unseeded == init(EMPTY, ZeroKey)

\* the halves of a u64: (v >> 0) as u32 and (v >> 32) as u32
low_u32(v) == v[2]
high_u32(v) == v[1]

\* self.set_counter(counter_low, counter_high)
set_counter_keeps_buffer(self, counter_low, counter_high) ==
  [self EXCEPT
     !.state = [self.state EXCEPT ![13] = low_u32(counter_low),
                                  ![14] = high_u32(counter_low),
                                  ![15] = low_u32(counter_high),
                                  ![16] = high_u32(counter_high)]]

set_counter(self, counter_low, counter_high) ==
  [self EXCEPT
     !.state = [self.state EXCEPT ![13] = low_u32(counter_low),
                                  ![14] = high_u32(counter_low),
                                  ![15] = low_u32(counter_high),
                                  ![16] = high_u32(counter_high)],
     !.index = STATE_WORDS]

\* the refill adds one to word 12 and carries into word 13 only
update_carries_once(self) ==
  LET s == self.state
      c12 == wrapping_add(s[13], U32_ONE)
      c13 == wrapping_add(s[14], U32_ONE)
  IN [buffer |-> core(s),
      state |-> IF c12 # U32_ZERO THEN [s EXCEPT ![13] = c12]
                ELSE [s EXCEPT ![13] = c12, ![14] = c13],
      index |-> 0]

\* self.update(): refill the buffer, then add one to the 128-bit counter
update(self) ==
  LET s == self.state
      c12 == wrapping_add(s[13], U32_ONE)
      c13 == wrapping_add(s[14], U32_ONE)
      c14 == wrapping_add(s[15], U32_ONE)
      c15 == wrapping_add(s[16], U32_ONE)
  IN [buffer |-> core(s),
      state |-> IF c12 # U32_ZERO THEN [s EXCEPT ![13] = c12]
                ELSE IF c13 # U32_ZERO THEN [s EXCEPT ![13] = c12, ![14] = c13]
                ELSE IF c14 # U32_ZERO
                  THEN [s EXCEPT ![13] = c12, ![14] = c13, ![15] = c14]
                ELSE [s EXCEPT ![13] = c12, ![14] = c13, ![15] = c14,
                               ![16] = c15],
      index |-> 0]

\* the end of next_u32: buffer[index % STATE_WORDS] is read and index moves
read_buffer(self) ==
  [rng |-> [self EXCEPT !.index = self.index + 1],
   value |-> self.buffer[(self.index % STATE_WORDS) + 1]]

\* the refill comes one call late
next_u32_refills_late(self) ==
  IF self.index > STATE_WORDS THEN read_buffer(update(self))
  ELSE read_buffer(self)

\* self.next_u32(): the generator afterwards and the value returned
next_u32(self) ==
  IF self.index = STATE_WORDS THEN read_buffer(update(self))
  ELSE read_buffer(self)

\* self.reseed(seed)
reseed_wraps_long_seed(self, seed) ==
  LET r == init(self, ZeroKey)
  IN [r EXCEPT
        !.state = [i \in 1..STATE_WORDS |->
                     IF i > 4 /\ i <= 4 + KEY_WORDS /\ i - 4 <= Len(seed)
                       THEN IF i - 4 + KEY_WORDS <= Len(seed)
                              THEN seed[i - 4 + KEY_WORDS]
                              ELSE seed[i - 4]
                       ELSE r.state[i]]]

\* the key is replaced and the position in the buffer is kept
reseed_keeps_position(self, seed) ==
  LET r == init(self, ZeroKey)
  IN [r EXCEPT
        !.state = [i \in 1..STATE_WORDS |->
                     IF i > 4 /\ i <= 4 + KEY_WORDS /\ i - 4 <= Len(seed)
                       THEN seed[i - 4]
                       ELSE r.state[i]],
        !.index = self.index]

reseed(self, seed) ==
  LET r == init(self, ZeroKey)
  IN [r EXCEPT
        !.state = [i \in 1..STATE_WORDS |->
                     IF i > 4 /\ i <= 4 + KEY_WORDS /\ i - 4 <= Len(seed)
                       THEN seed[i - 4]
                       ELSE r.state[i]]]

from_seed(seed) == reseed(EMPTY, seed)

(***************************************************************************)
(* The ChaCha stream the outputs are compared with: block n of a key is    *)
(* core applied to the constants, the key and the 128-bit counter n.       *)
(***************************************************************************)
\* the first KEY_WORDS words of a seed, padded with zeros
key_of(seed) ==
  [i \in 1..KEY_WORDS |-> IF i <= Len(seed) THEN seed[i] ELSE U32_ZERO]

\* the counter <<counter_low, counter_high>> as state words 12..15
counter_words(c) ==
  <<low_u32(c[1]), high_u32(c[1]), low_u32(c[2]), high_u32(c[2])>>

U64_ZERO == <<U32_ZERO, U32_ZERO>>
U64_MAX == <<U32_MAX, U32_MAX>>

ZeroCounter == counter_words(<<U64_ZERO, U64_ZERO>>)

\* the 128-bit counter plus one, modulo 2^128: add one at word i
RECURSIVE carry(_, _)
carry(c, i) ==
  IF i > Len(c) THEN c
  ELSE IF c[i] = U32_MAX THEN carry([c EXCEPT ![i] = U32_ZERO], i + 1)
  ELSE [c EXCEPT ![i] = wrapping_add(c[i], U32_ONE)]

block_input(key, counter) == SIGMA \o key \o counter

\* the first two blocks of the stream of key that starts at counter
stream_from(key, counter) ==
  <<core(block_input(key, counter)),
    core(block_input(key, carry(counter, 1)))>>

\* word i (from 1) of such a stream
stream_word(stream, i) ==
  stream[((i - 1) \div STATE_WORDS) + 1][((i - 1) % STATE_WORDS) + 1]

(***************************************************************************)
(* One generator: made, drawn from, repositioned once (SpecChaCha).        *)
(* hist.stream records, when the generator is made or positioned, the      *)
(* stream of its key from its counter.                                     *)
(***************************************************************************)
MaxDraws == 17

SeedKey ==
  <<U32_MAX, U32_ONE, U32_ZERO, U32_MAX, U32_ONE, U32_ZERO, U32_MAX, U32_ONE>>

\* seeds shorter than, as long as, and longer than the key
Seeds ==
  {<< >>, <<U32_ONE>>,
   <<U32_ONE, U32_ZERO, U32_ZERO, U32_ZERO, U32_ZERO, U32_ZERO, U32_ZERO,
     U32_ZERO>>,
   SeedKey, SeedKey \o <<U32_MAX>>, SeedKey \o <<U32_ONE, U32_MAX>>}

\* <<counter_low, counter_high>>: block 1, a carry out of word 12, out of
\* words 12 and 13, out of words 12 to 14, and the last counter value
Counters ==
  {<< <<U32_ZERO, U32_ONE>>, U64_ZERO >>,
   << <<U32_ZERO, U32_MAX>>, <<U32_ONE, U32_ZERO>> >>,
   << U64_MAX, <<U32_MAX, U32_ONE>> >>,
   << U64_MAX, <<U32_ONE, U32_MAX>> >>,
   << U64_MAX, U64_MAX >>}

InitChaCha ==
  /\ InitUnwind
  /\ dcall = NoCall
  /\ dret = NoRet
  /\ InitLibrary

\* ChaChaRng::new_unseeded()
NewUnseeded ==
  /\ rng = NoRng
  /\ rng' = new_unseeded
  /\ out' = << >>
  /\ \E key \in {ZeroKey} :
       hist' = [ctor |-> "new_unseeded", seed |-> << >>, counter |-> << >>,
                before |-> 0, stream |-> stream_from(key, ZeroCounter)]
  /\ UNCHANGED <<dcall, dret, unwind_vars, path_vars>>

\* ChaChaRng::from_seed(seed)
FromSeed ==
  /\ rng = NoRng
  /\ \E seed \in Seeds :
       /\ rng' = from_seed(seed)
       /\ hist' = [ctor |-> "from_seed", seed |-> seed, counter |-> << >>,
                   before |-> 0,
                   stream |-> stream_from(key_of(seed), ZeroCounter)]
  /\ out' = << >>
  /\ UNCHANGED <<dcall, dret, unwind_vars, path_vars>>

\* rng.next_u32()
NextU32 ==
  /\ rng # NoRng
  /\ Len(out) < MaxDraws
  /\ \E r \in {next_u32(rng)} :
       /\ rng' = r.rng
       /\ out' = Append(out, r.value)
  /\ UNCHANGED <<hist, dcall, dret, unwind_vars, path_vars>>

\* rng.set_counter(counter_low, counter_high), once per generator and
\* before it is reseeded
SetCounter ==
  /\ rng # NoRng
  /\ hist.counter = << >>
  /\ hist.ctor # "reseed"
  /\ \E c \in Counters :
       /\ rng' = set_counter(rng, c[1], c[2])
       /\ hist' = [hist EXCEPT
                     !.counter = c, !.before = Len(out),
                     !.stream = stream_from(key_of(hist.seed), counter_words(c))]
  /\ out' = << >>
  /\ UNCHANGED <<dcall, dret, unwind_vars, path_vars>>

\* rng.reseed(seed), once per generator, in whatever state it is
Reseed ==
  /\ rng # NoRng
  /\ hist.ctor # "reseed"
  /\ \E seed \in Seeds :
       /\ rng' = reseed(rng, seed)
       /\ hist' = [ctor |-> "reseed", seed |-> seed, counter |-> << >>,
                   before |-> 0, stream |-> << >>]
  /\ out' = << >>
  /\ UNCHANGED <<dcall, dret, unwind_vars, path_vars>>

NextChaCha ==
  \/ NewUnseeded
  \/ FromSeed
  \/ NextU32
  \/ SetCounter
  \/ Reseed

SpecChaCha == InitChaCha /\ [][NextChaCha]_vars

Jumped == hist.counter # << >>

\* C26: a generator made by new_unseeded gives one fixed sequence, the stream
\* of the zero key from counter 0, whose first two words are 2917185654
\* (0xADE0B876) and 2419978656 (0x903DF1A0).
C26_UnseededDeterministic ==
  (hist.ctor = "new_unseeded" /\ ~Jumped) =>
    /\ \E key \in {ZeroKey} :
         \E stream \in {stream_from(key, ZeroCounter)} :
           \A i \in 1..Len(out) : out[i] = stream_word(stream, i)
    /\ Len(out) >= 1 => out[1] = <<44512, 47222>>
    /\ Len(out) >= 2 => out[2] = <<36925, 61856>>

C26_Witness ==
  /\ hist.ctor = "new_unseeded"
  /\ ~Jumped
  /\ Len(out) = MaxDraws
  /\ out[1] = <<44512, 47222>>
  /\ out[2] = <<36925, 61856>>

\* the generator g after n calls of next_u32, and the values they returned
RECURSIVE drawn(_, _)
drawn(g, n) ==
  IF n = 0 THEN [rng |-> g, out |-> << >>]
  ELSE LET p == drawn(g, n - 1)
           r == next_u32(p.rng)
       IN [rng |-> r.rng, out |-> Append(p.out, r.value)]

\* C27: from_seed(s) gives the outputs of from_seed applied to the first 8
\* words of s padded with zeros to length 8: words of s beyond the eighth
\* never matter, and from_seed of the empty slice is new_unseeded.
C27_SeedTruncatedAndPadded ==
  (hist.ctor = "from_seed" /\ ~Jumped) =>
    /\ \E ref \in {drawn(from_seed(key_of(hist.seed)), Len(out))} :
         /\ out = ref.out
         /\ rng = ref.rng
    /\ \A i \in 1..Len(out) : out[i] = stream_word(hist.stream, i)
    /\ hist.seed = << >> =>
         \E ref \in {drawn(new_unseeded, Len(out))} :
           /\ out = ref.out
           /\ rng = ref.rng

C27_Witness ==
  /\ hist.ctor = "from_seed"
  /\ ~Jumped
  /\ Len(hist.seed) > KEY_WORDS + 1
  /\ hist.seed[KEY_WORDS + 1] # U32_ZERO
  /\ Len(out) > STATE_WORDS

\* the counter arguments (k, 0) of set_counter, k small
BlockNumber(k) == << <<U32_ZERO, <<0, k>> >>, U64_ZERO >>

\* C28: after set_counter(lo, hi), however many outputs were drawn before,
\* the outputs are the blocks of the key for the counters (hi, lo),
\* (hi, lo) + 1, ..., and no word buffered before is returned; a fresh
\* generator that has given 16 * k outputs continues as one positioned by
\* set_counter(k, 0) starts.
C28_SetCounterJumps ==
  /\ Jumped =>
       /\ Len(out) = 0 =>
            hist.stream = stream_from(key_of(hist.seed),
                                      counter_words(hist.counter))
       /\ \A i \in 1..Len(out) : out[i] = stream_word(hist.stream, i)
  /\ (~Jumped /\ Len(out) > STATE_WORDS) =>
       \A k \in 1..(Len(out) \div STATE_WORDS) :
         \E stream \in {stream_from(key_of(hist.seed),
                                    counter_words(BlockNumber(k)))} :
           \A i \in (STATE_WORDS * k + 1)..Len(out) :
             out[i] = stream_word(stream, i - STATE_WORDS * k)

C28_Witness ==
  /\ Jumped
  /\ hist.before = 3
  /\ rng.state[5] # U32_ZERO
  /\ hist.counter = << <<U32_ZERO, U32_MAX>>, <<U32_ONE, U32_ZERO>> >>
  /\ Len(out) > STATE_WORDS
  /\ rng.state[13] = U32_ONE
  /\ rng.state[14] = U32_ONE

Reseeded == hist.ctor = "reseed"

\* C33: reseed(s) resets the generator wholly, whatever its key, counter,
\* buffer and index were: its state words are those of from_seed(s) with the
\* counter at zero, and its outputs from then on are those of from_seed(s),
\* so no word buffered before the reseed is output.
C33_ReseedResets ==
  Reseeded =>
    /\ Len(out) = 0 =>
         /\ rng.state = from_seed(hist.seed).state
         /\ rng.index = from_seed(hist.seed).index
         /\ SubSeq(rng.state, 13, 16) = ZeroCounter
    /\ Len(out) > 0 =>
         \E ref \in {drawn(from_seed(hist.seed), Len(out))} :
           /\ out = ref.out
           /\ rng = ref.rng

\* a generator reseeded in the middle of a block of another key
C33_Witness ==
  /\ Reseeded
  /\ Len(out) = 0
  /\ rng.buffer # EMPTY.buffer
  /\ rng.buffer # next_u32(from_seed(hist.seed)).rng.buffer
  /\ hist.seed = SeedKey

\* a step that refills the buffer: the index was STATE_WORDS and a word is
\* drawn
Refill ==
  /\ rng # NoRng
  /\ rng.index = STATE_WORDS
  /\ out' = Append(out, rng'.buffer[1])
  /\ rng'.index = 1

\* C34: each refill of the buffer adds exactly one, modulo 2^128, to the
\* block counter in state words 12..15 (word 12 least significant): word 12
\* is incremented, word k+1 is incremented exactly when word k wraps from
\* 0xFFFFFFFF to 0, and words 0..11 are unchanged.
C34_RefillAddsOne ==
  [][Refill =>
       /\ SubSeq(rng'.state, 13, 16) = carry(SubSeq(rng.state, 13, 16), 1)
       /\ rng'.state[13] = wrapping_add(rng.state[13], U32_ONE)
       /\ \A k \in 13..15 :
            rng'.state[k + 1] =
              IF rng.state[k] = U32_MAX /\ rng'.state[k] = U32_ZERO
              THEN wrapping_add(rng.state[k + 1], U32_ONE)
              ELSE rng.state[k + 1]
       /\ SubSeq(rng'.state, 1, 12) = SubSeq(rng.state, 1, 12)
       /\ SubSeq(rng.state, 1, 4) = SIGMA]_vars

\* the refill after the counter was set to carry out of words 12 and 13 but
\* not out of word 14
C34_Witness ==
  /\ Jumped
  /\ hist.counter = << U64_MAX, <<U32_MAX, U32_ONE>> >>
  /\ Len(out) = 1
  /\ SubSeq(rng.state, 13, 16) = <<U32_ZERO, U32_ZERO, <<0, 2>>, U32_MAX>>
  /\ rng.state[5] = U32_MAX

\* a step in which next_u32 returns a word
Draw == Len(out') = Len(out) + 1 /\ SubSeq(out', 1, Len(out)) = out

\* the 128-bit counter c plus n
RECURSIVE counter_plus(_, _)
counter_plus(c, n) == IF n = 0 THEN c ELSE counter_plus(carry(c, 1), n - 1)

\* the counter the generator was last positioned at
StartCounter == IF Jumped THEN counter_words(hist.counter) ELSE ZeroCounter

\* out holds the words returned since the generator was made or last
\* positioned: the buffer was refilled once per STATE_WORDS of them
IndexInStep ==
  rng # NoRng =>
    /\ rng.index \in 0..STATE_WORDS
    /\ rng.index = IF Len(out) = 0 THEN STATE_WORDS
                   ELSE ((Len(out) - 1) % STATE_WORDS) + 1
    /\ SubSeq(rng.state, 13, 16) =
         counter_plus(StartCounter, (Len(out) + STATE_WORDS - 1) \div STATE_WORDS)
    /\ Len(out) > 0 =>
         /\ SubSeq(out, Len(out) - rng.index + 1, Len(out)) =
              SubSeq(rng.buffer, 1, rng.index)
         /\ rng.buffer # EMPTY.buffer

\* next_u32 refills exactly when the index is STATE_WORDS, and otherwise
\* returns the next word of the buffer it has
RefillAtEnd ==
  Draw =>
    /\ (rng'.state # rng.state) <=> (rng.index = STATE_WORDS)
    /\ rng.index = STATE_WORDS =>
         /\ rng'.index = 1
         /\ out'[Len(out')] = rng'.buffer[1]
    /\ rng.index # STATE_WORDS =>
         /\ rng'.buffer = rng.buffer
         /\ rng.buffer # EMPTY.buffer
         /\ rng'.index = rng.index + 1
         /\ out'[Len(out')] = rng.buffer[rng.index + 1]

\* C35: after any sequence of new_unseeded / from_seed, reseed, set_counter
\* and next_u32 calls the index is within 0..16; next_u32 refills the buffer
\* exactly when the index is 16, so there is one refill per 16 consecutive
\* outputs, the 16 words of each block are returned once each in index
\* order, and no word of the all-zero initial buffer is returned.
C35_IndexAndRefill == []IndexInStep /\ [][RefillAtEnd]_vars

\* a reseeded generator that has returned a whole block and the first word
\* of the next
C35_Witness ==
  /\ Reseeded
  /\ Len(out) = STATE_WORDS + 1
  /\ rng.index = 1
  /\ out[Len(out)] = rng.buffer[1]
  /\ out[STATE_WORDS] # rng.buffer[STATE_WORDS]

(***************************************************************************)
(* The class tag and the action bits in the personality routine.           *)
(***************************************************************************)
\* the heap with an envelope of the given class and cleanup hook at p
WithEnvelope(p, class, hook) ==
  [heap EXCEPT ![p] = [exception_class |-> class, exception_cleanup |-> hook,
                       cause |-> "P"]]

ActionBitSets ==
  {s + c + h + f : s \in {0, _UA_SEARCH_PHASE}, c \in {0, _UA_CLEANUP_PHASE},
                   h \in {0, _UA_HANDLER_FRAME}, f \in {0, _UA_FORCE_UNWIND}}

\* the invocation of dcall with the action bits replaced by a
WithActions(a) ==
  rust_eh_personality_impl(dcall.version, a, dcall.exception_class,
                           dcall.exception_object, dcall.context)

\* C30: the phase is chosen by the search-phase bit of actions alone: with
\* the bit set the invocation is handled as the search phase whatever other
\* bits are set, with the bit clear as the cleanup phase whatever other bits
\* (handler-frame, force-unwind, or none) are set.
C30_PhaseBySearchBit ==
  Returned =>
    /\ dret = IF InSearchPhase THEN WithActions(_UA_SEARCH_PHASE)
              ELSE WithActions(_UA_CLEANUP_PHASE)
    /\ \A a \in ActionBitSets :
         WithActions(a) = IF BitAnd(a, _UA_SEARCH_PHASE) # 0
                          THEN WithActions(_UA_SEARCH_PHASE)
                          ELSE WithActions(_UA_CLEANUP_PHASE)
    /\ (dcall.version = 1 /\ Resolved.ok) =>
         /\ InSearchPhase =>
              dret = personality_search(Resolved.action, dcall.context,
                                        find_eh_action(dcall.context).calls)
         /\ ~InSearchPhase =>
              dret = personality_cleanup(Resolved.action,
                                         dcall.exception_object, dcall.context,
                                         find_eh_action(dcall.context).calls)

C30_Witness ==
  /\ Returned
  /\ dcall.actions = 0
  /\ dcall.version = 1
  /\ Resolved.ok
  /\ Resolved.action.tag = "Catch"
  /\ dret.rc = _URC_INSTALL_CONTEXT
  /\ WithActions(_UA_SEARCH_PHASE + _UA_FORCE_UNWIND).rc = _URC_HANDLER_FOUND

(***************************************************************************)
(* The cleanup callback on its own (SpecCallback): the native runtime, or  *)
(* another runtime holding the object, calls the hook stored in an         *)
(* envelope of this runtime with some reason code.  dcall holds the        *)
(* arguments and the heap at the call.                                     *)
(***************************************************************************)
\* every _Unwind_Reason_Code
ReasonCodes ==
  {"_URC_NO_REASON", "_URC_FOREIGN_EXCEPTION_CAUGHT", _URC_FATAL_PHASE2_ERROR,
   _URC_FATAL_PHASE1_ERROR, "_URC_NORMAL_STOP", _URC_END_OF_STACK,
   _URC_HANDLER_FOUND, _URC_INSTALL_CONTEXT, _URC_CONTINUE_UNWIND}

\* what an address can hold: nothing, an envelope made by panic, or the
\* object of another runtime
Cells ==
  {FreeCell}
  \cup {panic([q \in {1} |-> FreeCell], 1, data).heap[1] : data \in Payloads}
  \cup {[exception_class |-> foreign_exception_class,
         exception_cleanup |-> "foreign_cleanup", cause |-> "foreign bytes"]}

InitCallback ==
  /\ pc = "running"
  /\ stack = << >>
  /\ heap \in [Ptrs -> Cells]
  /\ allocs = [p \in Ptrs |-> IF heap[p] = FreeCell THEN 0 ELSE 1]
  /\ frees = [p \in Ptrs |-> 0]
  /\ raised = NoRaise
  /\ cur = 0
  /\ handler = 0
  /\ pad = ""
  /\ caught = NoCatch
  /\ cleaned = NoCleanup
  /\ status = ""
  /\ ret = << >>
  /\ log = << >>
  /\ nraise = 0
  /\ dcall \in [unwind_code : ReasonCodes,
                exception : {p \in Ptrs :
                               heap[p].exception_cleanup = "exception_cleanup"},
                heap : {heap}]
  /\ dret = NoRet
  /\ InitLibrary

\* (*exception.exception_cleanup)(unwind_code, exception); a fault does not
\* return, so nothing the callback would return reaches a caller
CleanupCallback ==
  /\ dret = NoRet
  /\ LET d == exception_cleanup(heap, dcall.unwind_code, dcall.exception) IN
       /\ heap' = d.heap
       /\ frees' = Reclaimed(d.freed)
       /\ log' = log \o ReclaimEvents(d.freed, "exception_cleanup")
                   \o (IF d.fault # "" THEN <<Event("fault", dcall.exception, d.fault)>>
                       ELSE << >>)
       /\ pc' = IF d.fault # "" THEN "aborted" ELSE "running"
       /\ ret' = IF d.fault # "" \/ d.ret = NoPayload THEN ret ELSE <<d.ret>>
       /\ dret' = d
  /\ UNCHANGED <<stack, allocs, raised, cur, handler, pad, caught, cleaned,
                 status, nraise, dcall>>
  /\ UNCHANGED library_vars

NextCallback == CleanupCallback

SpecCallback == InitCallback /\ [][NextCallback]_vars

\* C32: when the cleanup callback of an envelope is invoked, it frees the
\* envelope together with its payload exactly once and then always signals
\* the drop-panic fault; it returns the payload to no caller, whatever the
\* unwind reason code it is given.
C32_CallbackFreesThenFaults ==
  dret # NoRet =>
    LET p == dcall.exception IN
    /\ dret.freed = <<p>>
    /\ frees[p] = 1 /\ allocs[p] = 1
    /\ heap[p] = FreeCell
    /\ \A q \in Ptrs \ {p} : heap[q] = dcall.heap[q] /\ frees[q] = 0
    /\ dret.fault = "__rust_drop_panic"
    /\ pc = "aborted"
    /\ log = <<Event("reclaim", p, "exception_cleanup"),
               Event("fault", p, "__rust_drop_panic")>>
    /\ dret.ret = NoPayload
    /\ ret = << >>

C32_Witness ==
  /\ dret # NoRet
  /\ dcall.unwind_code = "_URC_FOREIGN_EXCEPTION_CAUGHT"
  /\ dcall.heap[dcall.exception].cause = "P"
  /\ \E q \in Ptrs : heap[q].exception_class = foreign_exception_class
  /\ pc = "aborted"

(***************************************************************************)
(* Search-path lists (sgx_tstd/src/sys/os.rs): join_paths and split_paths. *)
(* A segment and a joined string are sequences of bytes.                   *)
(***************************************************************************)
\* b':'
PATH_SEPARATOR == 58

JoinPathsError == "JoinPathsError"

\* path.contains(&b)
contains(path, b) == \E j \in DOMAIN path : path[j] = b

\* the loop of join_paths from segment i on (i counts from 1, the loop's
\* index from 0): the separator is pushed before every segment but the
\* first, and only then is the segment examined
RECURSIVE join_from_trailing_separator(_, _, _)
join_from_trailing_separator(ps, i, acc) ==
  IF i > Len(ps) THEN [tag |-> "Ok", val |-> acc]
  ELSE IF contains(ps[i], PATH_SEPARATOR)
       THEN [tag |-> "Err", val |-> JoinPathsError]
       ELSE join_from_trailing_separator(ps, i + 1,
                                         Append(acc \o ps[i], PATH_SEPARATOR))

RECURSIVE join_from(_, _, _)
join_from(ps, i, acc) ==
  IF i > Len(ps) THEN [tag |-> "Ok", val |-> acc]
  ELSE IF contains(ps[i], PATH_SEPARATOR)
       THEN [tag |-> "Err", val |-> JoinPathsError]
       ELSE join_from(ps, i + 1,
                      (IF i > 1 THEN Append(acc, PATH_SEPARATOR) ELSE acc) \o ps[i])

join_paths_trailing_separator(ps) == join_from_trailing_separator(ps, 1, << >>)

join_paths(ps) == join_from(ps, 1, << >>)

\* b == PATH_SEPARATOR
is_separator(b) == b = PATH_SEPARATOR

\* slice::split: the subslices between the bytes that match, one more than
\* there are matching bytes (an empty slice gives one empty subslice)
RECURSIVE split(_)
split(v) ==
  IF \A j \in DOMAIN v : ~is_separator(v[j]) THEN <<v>>
  ELSE LET idx == CHOOSE j \in DOMAIN v :
                    is_separator(v[j]) /\ \A k \in 1..(j - 1) : ~is_separator(v[k])
       IN <<SubSeq(v, 1, idx - 1)>> \o split(SubSeq(v, idx + 1, Len(v)))

\* the paths the iterator yields, in order
split_paths_skips_empty(unparsed) == SelectSeq(split(unparsed), LAMBDA b : b # << >>)

split_paths(unparsed) == split(unparsed)

(***************************************************************************)
(* Joining a list of segments and splitting the result (SpecPaths).        *)
(***************************************************************************)
MaxSegments == 2
MaxSegmentLen == 2

\* ':', '/' and 'a'
Bytes == {PATH_SEPARATOR, 47, 97}

RECURSIVE SeqsUpTo(_, _)
SeqsUpTo(S, n) ==
  IF n = 0 THEN {<< >>}
  ELSE SeqsUpTo(S, n - 1) \cup {Append(q, x) : q \in SeqsUpTo(S, n - 1), x \in S}

Segments == SeqsUpTo(Bytes, MaxSegmentLen)
PathLists == SeqsUpTo(Segments, MaxSegments)

InitPaths ==
  /\ InitUnwind
  /\ dcall = NoCall
  /\ dret = NoRet
  /\ InitRand
  /\ paths \in PathLists
  /\ joined = NotCalled
  /\ parsed = NotCalled

\* join_paths(paths.iter())
JoinPaths ==
  /\ joined = NotCalled
  /\ joined' = join_paths(paths)
  /\ UNCHANGED <<paths, parsed, dcall, dret, unwind_vars, rand_vars>>

\* split_paths(&joined).collect()
SplitPaths ==
  /\ joined.tag = "Ok"
  /\ parsed = NotCalled
  /\ parsed' = [tag |-> "Ok", val |-> split_paths(joined.val)]
  /\ UNCHANGED <<paths, joined, dcall, dret, unwind_vars, rand_vars>>

NextPaths ==
  \/ JoinPaths
  \/ SplitPaths

SpecPaths == InitPaths /\ [][NextPaths]_vars

\* some segment holds the separator byte
HasSeparator == \E i \in DOMAIN paths : \E j \in DOMAIN paths[i] : paths[i][j] = PATH_SEPARATOR

\* where segment i starts in the joined string: after the segments before it
\* and one separator for each of them
RECURSIVE Offset(_, _)
Offset(ps, i) == IF i = 1 THEN 0 ELSE Offset(ps, i - 1) + Len(ps[i - 1]) + 1

\* C36: join_paths returns JoinPathsError if and only if some segment holds
\* the separator byte ':'; otherwise it returns the segments in input order
\* with exactly one ':' between consecutive segments.
C36_JoinErrorIffSeparator ==
  joined # NotCalled =>
    /\ joined.tag = (IF HasSeparator THEN "Err" ELSE "Ok")
    /\ joined.tag = "Err" => joined.val = JoinPathsError
    /\ joined.tag = "Ok" =>
         /\ Len(joined.val) =
              IF paths = << >> THEN 0
              ELSE Offset(paths, Len(paths)) + Len(paths[Len(paths)])
         /\ \A i \in DOMAIN paths :
              SubSeq(joined.val, Offset(paths, i) + 1,
                     Offset(paths, i) + Len(paths[i])) = paths[i]
         /\ \A i \in 2..Len(paths) : joined.val[Offset(paths, i)] = PATH_SEPARATOR

\* a clean segment followed by one that holds the separator
C36_Witness ==
  /\ joined.tag = "Err"
  /\ Len(paths) = 2
  /\ ~contains(paths[1], PATH_SEPARATOR)
  /\ paths[1] # << >>
  /\ contains(paths[2], PATH_SEPARATOR)

\* C37 as stated: for every sequence ps of segments none of which holds ':',
\* the empty sequence and sequences with empty segments included,
\* split_paths(join_paths(ps)) yields exactly ps.
C37_RoundTrip ==
  parsed # NotCalled => parsed.val = paths

\* C37, amended: for every non-empty sequence ps of segments none of which
\* holds ':', sequences with empty segments included,
\* split_paths(join_paths(ps)) yields exactly ps; for the empty sequence it
\* yields one empty segment.
C37_RoundTripOfNonEmpty ==
  parsed # NotCalled =>
    /\ paths # << >> => parsed.val = paths
    /\ paths = << >> => parsed.val = << << >> >>

\* two empty segments come back as two empty segments
C37_Witness ==
  /\ parsed # NotCalled
  /\ paths = << << >>, << >> >>
  /\ joined.val = <<PATH_SEPARATOR>>
  /\ parsed.val = paths
====
